---- MODULE Spec2Model ----
(***************************************************************************)
(* Gambit: mutant generation for Solidity sources.                         *)
(*                                                                         *)
(* The model follows src/src/ast.rs (the JSON AST wrapper, the traversal   *)
(* and the text surgery), src/src/mutation.rs (the eleven mutation kinds)  *)
(* and src/src/run.rs (discovery, scheduling and the generation loop).     *)
(*                                                                         *)
(* Text is a sequence of one-character strings, one per byte; offsets are  *)
(* 0-based and spans half-open, as in the `src` fields of the compiler's   *)
(* AST.                                                                    *)
(***************************************************************************)
EXTENDS Integers, Sequences, FiniteSets, TLC

(***************************************************************************)
(* Bounds of the model.                                                    *)
(***************************************************************************)
\* the quota (num_mutants) ranges over 0..MaxQuota
MaxQuota == 2

\* the seed ranges over 0..MaxSeed
MaxSeed == 1

\* replace_multiple is called with 1..MaxReps replacements
MaxReps == 3

\* the runs of degenerate quota have a quota in -MaxNegQuota..1
MaxNegQuota == 2

\* number of states of the model of the random stream (rand_pcg::Pcg64)
RandMod == 16

\* width of usize in the model: arithmetic on offsets wraps modulo UsizeMod
UsizeMod == 65536

(***************************************************************************)
(* Program constants.                                                      *)
(***************************************************************************)
\* run.rs: static ATTEMPTS: i64 = 50
ATTEMPTS == 50

\* an absent JSON field, an Option that is None
Null == "null"

(***************************************************************************)
(* Text helpers.                                                           *)
(***************************************************************************)
\* source[a..b] of Rust: the bytes at offsets a, ..., b-1
Slice(s, a, b) == SubSeq(s, a + 1, b)

RECURSIVE Concat(_)
\* [x, y, ...].concat()
Concat(ss) == IF ss = <<>> THEN <<>> ELSE Head(ss) \o Concat(Tail(ss))

(***************************************************************************)
(* The JSON AST.  A tree is a table of nodes indexed by node id; id 0 is   *)
(* the JSON null.  `kids` lists the values of an object in the order of    *)
(* serde_json's Map (keys in ascending order) or the elements of an array. *)
(* Scalar values are kept as fields of their object: as nodes they have no *)
(* nodeType, no name and no children, so neither skip, nor a visitor, nor  *)
(* a function-scope accept is ever true of them.                           *)
(***************************************************************************)
Blank ==
  [json |-> "null", nodeType |-> Null, name |-> Null, contractKind |-> FALSE,
   hasSrc |-> FALSE, start |-> 0, len |-> 0, operator |-> Null,
   memberName |-> Null, expression |-> 0, leftExpression |-> 0,
   rightExpression |-> 0, leftHandSide |-> 0, rightHandSide |-> 0,
   condition |-> 0, arguments |-> <<>>, statements |-> <<>>, kids |-> <<>>]

\* a JSON object with the given fields
Obj(fields) == [f \in DOMAIN Blank |->
                  IF f = "json" THEN "object"
                  ELSE IF f \in DOMAIN fields THEN fields[f] ELSE Blank[f]]

\* a JSON array with the given elements
Arr(elems) == [Blank EXCEPT !.json = "array", !.kids = elems]

SourceA ==
  <<"c","o","n","t","r","a","c","t"," ","C","{","\n","f","u","n","c","t","i","o","n"," ","f","(",")","{","\n","x","=","a"," ","+"," ","b",";","\n","a","s","s","e","r","t","(","a"," ",">"," ","b",")",";","\n","}","\n","}","\n">>

ASTA ==
  <<
  (*  1 *) Obj([nodeType |-> "SourceUnit", hasSrc |-> TRUE, start |-> 0, len |-> 54, kids |-> <<2>>]),
  (*  2 *) Arr(<<3>>),
  (*  3 *) Obj([nodeType |-> "ContractDefinition", name |-> "C", contractKind |-> TRUE, hasSrc |-> TRUE, start |-> 0, len |-> 53, kids |-> <<4>>]),
  (*  4 *) Arr(<<5>>),
  (*  5 *) Obj([nodeType |-> "FunctionDefinition", name |-> "f", hasSrc |-> TRUE, start |-> 12, len |-> 39, kids |-> <<6>>]),
  (*  6 *) Obj([nodeType |-> "Block", hasSrc |-> TRUE, start |-> 24, len |-> 27, statements |-> <<8,14>>, kids |-> <<7>>]),
  (*  7 *) Arr(<<8,14>>),
  (*  8 *) Obj([nodeType |-> "ExpressionStatement", hasSrc |-> TRUE, start |-> 26, len |-> 7, expression |-> 9, kids |-> <<9>>]),
  (*  9 *) Obj([nodeType |-> "Assignment", hasSrc |-> TRUE, start |-> 26, len |-> 7, operator |-> "=", leftHandSide |-> 10, rightHandSide |-> 11, kids |-> <<10,11>>]),
  (* 10 *) Obj([nodeType |-> "Identifier", name |-> "x", hasSrc |-> TRUE, start |-> 26, len |-> 1]),
  (* 11 *) Obj([nodeType |-> "BinaryOperation", hasSrc |-> TRUE, start |-> 28, len |-> 5, operator |-> "+", leftExpression |-> 12, rightExpression |-> 13, kids |-> <<12,13>>]),
  (* 12 *) Obj([nodeType |-> "Identifier", name |-> "a", hasSrc |-> TRUE, start |-> 28, len |-> 1]),
  (* 13 *) Obj([nodeType |-> "Identifier", name |-> "b", hasSrc |-> TRUE, start |-> 32, len |-> 1]),
  (* 14 *) Obj([nodeType |-> "ExpressionStatement", hasSrc |-> TRUE, start |-> 35, len |-> 13, expression |-> 15, kids |-> <<15>>]),
  (* 15 *) Obj([nodeType |-> "FunctionCall", hasSrc |-> TRUE, start |-> 35, len |-> 13, expression |-> 20, arguments |-> <<17>>, kids |-> <<16,20>>]),
  (* 16 *) Arr(<<17>>),
  (* 17 *) Obj([nodeType |-> "BinaryOperation", hasSrc |-> TRUE, start |-> 42, len |-> 5, operator |-> ">", leftExpression |-> 18, rightExpression |-> 19, kids |-> <<18,19>>]),
  (* 18 *) Obj([nodeType |-> "Identifier", name |-> "a", hasSrc |-> TRUE, start |-> 42, len |-> 1]),
  (* 19 *) Obj([nodeType |-> "Identifier", name |-> "b", hasSrc |-> TRUE, start |-> 46, len |-> 1]),
  (* 20 *) Obj([nodeType |-> "Identifier", name |-> "assert", hasSrc |-> TRUE, start |-> 35, len |-> 6])
  >>

SourceB ==
  <<"c","o","n","t","r","a","c","t"," ","D","{","\n","f","u","n","c","t","i","o","n"," ","g","(",")","{","\n","+","+","i",";","\n","j","-","-",";","\n","h","(","a",",","b",",","c",")",";","\n","}","\n","}","\n">>

ASTB ==
  <<
  (*  1 *) Obj([nodeType |-> "SourceUnit", hasSrc |-> TRUE, start |-> 0, len |-> 50, kids |-> <<2>>]),
  (*  2 *) Arr(<<3>>),
  (*  3 *) Obj([nodeType |-> "ContractDefinition", name |-> "D", contractKind |-> TRUE, hasSrc |-> TRUE, start |-> 0, len |-> 49, kids |-> <<4>>]),
  (*  4 *) Arr(<<5>>),
  (*  5 *) Obj([nodeType |-> "FunctionDefinition", name |-> "g", hasSrc |-> TRUE, start |-> 12, len |-> 35, kids |-> <<6>>]),
  (*  6 *) Obj([nodeType |-> "Block", hasSrc |-> TRUE, start |-> 24, len |-> 23, statements |-> <<8,11,14>>, kids |-> <<7>>]),
  (*  7 *) Arr(<<8,11,14>>),
  (*  8 *) Obj([nodeType |-> "ExpressionStatement", hasSrc |-> TRUE, start |-> 26, len |-> 3, expression |-> 9, kids |-> <<9>>]),
  (*  9 *) Obj([nodeType |-> "UnaryOperation", hasSrc |-> TRUE, start |-> 26, len |-> 3, operator |-> "++", kids |-> <<10>>]),
  (* 10 *) Obj([nodeType |-> "Identifier", name |-> "i", hasSrc |-> TRUE, start |-> 28, len |-> 1]),
  (* 11 *) Obj([nodeType |-> "ExpressionStatement", hasSrc |-> TRUE, start |-> 31, len |-> 3, expression |-> 12, kids |-> <<12>>]),
  (* 12 *) Obj([nodeType |-> "UnaryOperation", hasSrc |-> TRUE, start |-> 31, len |-> 3, operator |-> "--", kids |-> <<13>>]),
  (* 13 *) Obj([nodeType |-> "Identifier", name |-> "j", hasSrc |-> TRUE, start |-> 31, len |-> 1]),
  (* 14 *) Obj([nodeType |-> "ExpressionStatement", hasSrc |-> TRUE, start |-> 36, len |-> 8, expression |-> 15, kids |-> <<15>>]),
  (* 15 *) Obj([nodeType |-> "FunctionCall", hasSrc |-> TRUE, start |-> 36, len |-> 8, expression |-> 20, arguments |-> <<17,18,19>>, kids |-> <<16,20>>]),
  (* 16 *) Arr(<<17,18,19>>),
  (* 17 *) Obj([nodeType |-> "Identifier", name |-> "a", hasSrc |-> TRUE, start |-> 38, len |-> 1]),
  (* 18 *) Obj([nodeType |-> "Identifier", name |-> "b", hasSrc |-> TRUE, start |-> 40, len |-> 1]),
  (* 19 *) Obj([nodeType |-> "Identifier", name |-> "c", hasSrc |-> TRUE, start |-> 42, len |-> 1]),
  (* 20 *) Obj([nodeType |-> "Identifier", name |-> "h", hasSrc |-> TRUE, start |-> 36, len |-> 1])
  >>

\* a file of two contracts with a free function between them; the second
\* contract declares a function named assert
SourceM ==
  <<"c","o","n","t","r","a","c","t"," ","C","{","\n","f","u","n","c","t","i","o","n"," ","f","(",")","m","(","p"," ","*"," ","q",")","{","\n","c"," ","-"," ","d",";","\n","a","s","s","e","r","t","(","r"," ",">"," ","s",")",";","\n","}","\n","f","u","n","c","t","i","o","n"," ","g","(",")","{","\n","e"," ","/"," ","f",";","\n","}","\n","}","\n","f","u","n","c","t","i","o","n"," ","k","(",")","{","\n","a"," ","+"," ","b",";","\n","}","\n","c","o","n","t","r","a","c","t"," ","D","{","\n","f","u","n","c","t","i","o","n"," ","f","(",")","{","\n","g"," ","%"," ","h",";","\n","}","\n","f","u","n","c","t","i","o","n"," ","a","s","s","e","r","t","(",")","{","\n","u"," ","-"," ","v",";","\n","}","\n","}","\n">>

\* its tree
ASTM ==
  <<
  (*  1 *) Obj([nodeType |-> "SourceUnit", hasSrc |-> TRUE, start |-> 0, len |-> 171, kids |-> <<2>>]),
  (*  2 *) Arr(<<3,33,40>>),
  (*  3 *) Obj([nodeType |-> "ContractDefinition", name |-> "C", contractKind |-> TRUE, hasSrc |-> TRUE, start |-> 0, len |-> 82, kids |-> <<4>>]),
  (*  4 *) Arr(<<5,26>>),
  (*  5 *) Obj([nodeType |-> "FunctionDefinition", name |-> "f", hasSrc |-> TRUE, start |-> 12, len |-> 45, kids |-> <<6,19>>]),
  (*  6 *) Obj([nodeType |-> "Block", hasSrc |-> TRUE, start |-> 32, len |-> 25, statements |-> <<8,12>>, kids |-> <<7>>]),
  (*  7 *) Arr(<<8,12>>),
  (*  8 *) Obj([nodeType |-> "ExpressionStatement", hasSrc |-> TRUE, start |-> 34, len |-> 5, expression |-> 9, kids |-> <<9>>]),
  (*  9 *) Obj([nodeType |-> "BinaryOperation", hasSrc |-> TRUE, start |-> 34, len |-> 5, operator |-> "-", leftExpression |-> 10, rightExpression |-> 11, kids |-> <<10,11>>]),
  (* 10 *) Obj([nodeType |-> "Identifier", name |-> "c", hasSrc |-> TRUE, start |-> 34, len |-> 1]),
  (* 11 *) Obj([nodeType |-> "Identifier", name |-> "d", hasSrc |-> TRUE, start |-> 38, len |-> 1]),
  (* 12 *) Obj([nodeType |-> "ExpressionStatement", hasSrc |-> TRUE, start |-> 41, len |-> 13, expression |-> 13, kids |-> <<13>>]),
  (* 13 *) Obj([nodeType |-> "FunctionCall", hasSrc |-> TRUE, start |-> 41, len |-> 13, expression |-> 18, arguments |-> <<15>>, kids |-> <<14,18>>]),
  (* 14 *) Arr(<<15>>),
  (* 15 *) Obj([nodeType |-> "BinaryOperation", hasSrc |-> TRUE, start |-> 48, len |-> 5, operator |-> ">", leftExpression |-> 16, rightExpression |-> 17, kids |-> <<16,17>>]),
  (* 16 *) Obj([nodeType |-> "Identifier", name |-> "r", hasSrc |-> TRUE, start |-> 48, len |-> 1]),
  (* 17 *) Obj([nodeType |-> "Identifier", name |-> "s", hasSrc |-> TRUE, start |-> 52, len |-> 1]),
  (* 18 *) Obj([nodeType |-> "Identifier", name |-> "assert", hasSrc |-> TRUE, start |-> 41, len |-> 6]),
  (* 19 *) Arr(<<20>>),
  (* 20 *) Obj([nodeType |-> "ModifierInvocation", hasSrc |-> TRUE, start |-> 24, len |-> 8, arguments |-> <<22>>, kids |-> <<21,25>>]),
  (* 21 *) Arr(<<22>>),
  (* 22 *) Obj([nodeType |-> "BinaryOperation", hasSrc |-> TRUE, start |-> 26, len |-> 5, operator |-> "*", leftExpression |-> 23, rightExpression |-> 24, kids |-> <<23,24>>]),
  (* 23 *) Obj([nodeType |-> "Identifier", name |-> "p", hasSrc |-> TRUE, start |-> 26, len |-> 1]),
  (* 24 *) Obj([nodeType |-> "Identifier", name |-> "q", hasSrc |-> TRUE, start |-> 30, len |-> 1]),
  (* 25 *) Obj([nodeType |-> "IdentifierPath", name |-> "m", hasSrc |-> TRUE, start |-> 24, len |-> 1]),
  (* 26 *) Obj([nodeType |-> "FunctionDefinition", name |-> "g", hasSrc |-> TRUE, start |-> 58, len |-> 22, kids |-> <<27>>]),
  (* 27 *) Obj([nodeType |-> "Block", hasSrc |-> TRUE, start |-> 70, len |-> 10, statements |-> <<29>>, kids |-> <<28>>]),
  (* 28 *) Arr(<<29>>),
  (* 29 *) Obj([nodeType |-> "ExpressionStatement", hasSrc |-> TRUE, start |-> 72, len |-> 5, expression |-> 30, kids |-> <<30>>]),
  (* 30 *) Obj([nodeType |-> "BinaryOperation", hasSrc |-> TRUE, start |-> 72, len |-> 5, operator |-> "/", leftExpression |-> 31, rightExpression |-> 32, kids |-> <<31,32>>]),
  (* 31 *) Obj([nodeType |-> "Identifier", name |-> "e", hasSrc |-> TRUE, start |-> 72, len |-> 1]),
  (* 32 *) Obj([nodeType |-> "Identifier", name |-> "f", hasSrc |-> TRUE, start |-> 76, len |-> 1]),
  (* 33 *) Obj([nodeType |-> "FunctionDefinition", name |-> "k", hasSrc |-> TRUE, start |-> 83, len |-> 22, kids |-> <<34>>]),
  (* 34 *) Obj([nodeType |-> "Block", hasSrc |-> TRUE, start |-> 95, len |-> 10, statements |-> <<36>>, kids |-> <<35>>]),
  (* 35 *) Arr(<<36>>),
  (* 36 *) Obj([nodeType |-> "ExpressionStatement", hasSrc |-> TRUE, start |-> 97, len |-> 5, expression |-> 37, kids |-> <<37>>]),
  (* 37 *) Obj([nodeType |-> "BinaryOperation", hasSrc |-> TRUE, start |-> 97, len |-> 5, operator |-> "+", leftExpression |-> 38, rightExpression |-> 39, kids |-> <<38,39>>]),
  (* 38 *) Obj([nodeType |-> "Identifier", name |-> "a", hasSrc |-> TRUE, start |-> 97, len |-> 1]),
  (* 39 *) Obj([nodeType |-> "Identifier", name |-> "b", hasSrc |-> TRUE, start |-> 101, len |-> 1]),
  (* 40 *) Obj([nodeType |-> "ContractDefinition", name |-> "D", contractKind |-> TRUE, hasSrc |-> TRUE, start |-> 106, len |-> 64, kids |-> <<41>>]),
  (* 41 *) Arr(<<42,49>>),
  (* 42 *) Obj([nodeType |-> "FunctionDefinition", name |-> "f", hasSrc |-> TRUE, start |-> 118, len |-> 22, kids |-> <<43>>]),
  (* 43 *) Obj([nodeType |-> "Block", hasSrc |-> TRUE, start |-> 130, len |-> 10, statements |-> <<45>>, kids |-> <<44>>]),
  (* 44 *) Arr(<<45>>),
  (* 45 *) Obj([nodeType |-> "ExpressionStatement", hasSrc |-> TRUE, start |-> 132, len |-> 5, expression |-> 46, kids |-> <<46>>]),
  (* 46 *) Obj([nodeType |-> "BinaryOperation", hasSrc |-> TRUE, start |-> 132, len |-> 5, operator |-> "%", leftExpression |-> 47, rightExpression |-> 48, kids |-> <<47,48>>]),
  (* 47 *) Obj([nodeType |-> "Identifier", name |-> "g", hasSrc |-> TRUE, start |-> 132, len |-> 1]),
  (* 48 *) Obj([nodeType |-> "Identifier", name |-> "h", hasSrc |-> TRUE, start |-> 136, len |-> 1]),
  (* 49 *) Obj([nodeType |-> "FunctionDefinition", name |-> "assert", hasSrc |-> TRUE, start |-> 141, len |-> 27, kids |-> <<50>>]),
  (* 50 *) Obj([nodeType |-> "Block", hasSrc |-> TRUE, start |-> 158, len |-> 10, statements |-> <<52>>, kids |-> <<51>>]),
  (* 51 *) Arr(<<52>>),
  (* 52 *) Obj([nodeType |-> "ExpressionStatement", hasSrc |-> TRUE, start |-> 160, len |-> 5, expression |-> 53, kids |-> <<53>>]),
  (* 53 *) Obj([nodeType |-> "BinaryOperation", hasSrc |-> TRUE, start |-> 160, len |-> 5, operator |-> "-", leftExpression |-> 54, rightExpression |-> 55, kids |-> <<54,55>>]),
  (* 54 *) Obj([nodeType |-> "Identifier", name |-> "u", hasSrc |-> TRUE, start |-> 160, len |-> 1]),
  (* 55 *) Obj([nodeType |-> "Identifier", name |-> "v", hasSrc |-> TRUE, start |-> 164, len |-> 1])
  >>

\* a fourth, short sample file with one operation and one contract
SourceS ==
  <<"c","o","n","t","r","a","c","t"," ","C","{","\n","f","u","n","c","t","i","o","n"," ","f","(",")","{","\n","a"," ","+"," ","b",";","\n","}","\n","}","\n">>

\* its JSON tree
ASTS ==
  <<
  (*  1 *) Obj([nodeType |-> "SourceUnit", hasSrc |-> TRUE, start |-> 0, len |-> 37, kids |-> <<2>>]),
  (*  2 *) Arr(<<3>>),
  (*  3 *) Obj([nodeType |-> "ContractDefinition", name |-> "C", contractKind |-> TRUE, hasSrc |-> TRUE, start |-> 0, len |-> 36, kids |-> <<4>>]),
  (*  4 *) Arr(<<5>>),
  (*  5 *) Obj([nodeType |-> "FunctionDefinition", name |-> "f", hasSrc |-> TRUE, start |-> 12, len |-> 22, kids |-> <<6>>]),
  (*  6 *) Obj([nodeType |-> "Block", hasSrc |-> TRUE, start |-> 24, len |-> 10, statements |-> <<8>>, kids |-> <<7>>]),
  (*  7 *) Arr(<<8>>),
  (*  8 *) Obj([nodeType |-> "ExpressionStatement", hasSrc |-> TRUE, start |-> 26, len |-> 5, expression |-> 9, kids |-> <<9>>]),
  (*  9 *) Obj([nodeType |-> "BinaryOperation", hasSrc |-> TRUE, start |-> 26, len |-> 5, operator |-> "+", leftExpression |-> 10, rightExpression |-> 11, kids |-> <<10,11>>]),
  (* 10 *) Obj([nodeType |-> "Identifier", name |-> "a", hasSrc |-> TRUE, start |-> 26, len |-> 1]),
  (* 11 *) Obj([nodeType |-> "Identifier", name |-> "b", hasSrc |-> TRUE, start |-> 30, len |-> 1])
  >>

\* a fifth sample file: two blocks of two statements and two calls of two
\* arguments, the longer element first in one and last in the other
SourceW ==
  <<"c","o","n","t","r","a","c","t"," ","C","{","\n","f","u","n","c","t","i","o","n"," ","f","(",")","{","\n","g","(","a","a",","," ","b",")",";","\n","x",";","\n","}","\n","f","u","n","c","t","i","o","n"," ","k","(",")","{","\n","y",";","\n","h","(","c",","," ","d","d",")",";","\n","}","\n","}","\n">>

\* its JSON tree
ASTW ==
  <<
  (*  1 *) Obj([nodeType |-> "SourceUnit", hasSrc |-> TRUE, start |-> 0, len |-> 72, kids |-> <<2>>]),
  (*  2 *) Arr(<<3>>),
  (*  3 *) Obj([nodeType |-> "ContractDefinition", name |-> "C", contractKind |-> TRUE, hasSrc |-> TRUE, start |-> 0, len |-> 71, kids |-> <<4>>]),
  (*  4 *) Arr(<<5,16>>),
  (*  5 *) Obj([nodeType |-> "FunctionDefinition", name |-> "f", hasSrc |-> TRUE, start |-> 12, len |-> 28, kids |-> <<6>>]),
  (*  6 *) Obj([nodeType |-> "Block", hasSrc |-> TRUE, start |-> 24, len |-> 16, statements |-> <<8,14>>, kids |-> <<7>>]),
  (*  7 *) Arr(<<8,14>>),
  (*  8 *) Obj([nodeType |-> "ExpressionStatement", hasSrc |-> TRUE, start |-> 26, len |-> 8, expression |-> 9, kids |-> <<9>>]),
  (*  9 *) Obj([nodeType |-> "FunctionCall", hasSrc |-> TRUE, start |-> 26, len |-> 8, expression |-> 13, arguments |-> <<11,12>>, kids |-> <<10,13>>]),
  (* 10 *) Arr(<<11,12>>),
  (* 11 *) Obj([nodeType |-> "Identifier", name |-> "aa", hasSrc |-> TRUE, start |-> 28, len |-> 2]),
  (* 12 *) Obj([nodeType |-> "Identifier", name |-> "b", hasSrc |-> TRUE, start |-> 32, len |-> 1]),
  (* 13 *) Obj([nodeType |-> "Identifier", name |-> "g", hasSrc |-> TRUE, start |-> 26, len |-> 1]),
  (* 14 *) Obj([nodeType |-> "ExpressionStatement", hasSrc |-> TRUE, start |-> 36, len |-> 1, expression |-> 15, kids |-> <<15>>]),
  (* 15 *) Obj([nodeType |-> "Identifier", name |-> "x", hasSrc |-> TRUE, start |-> 36, len |-> 1]),
  (* 16 *) Obj([nodeType |-> "FunctionDefinition", name |-> "k", hasSrc |-> TRUE, start |-> 41, len |-> 28, kids |-> <<17>>]),
  (* 17 *) Obj([nodeType |-> "Block", hasSrc |-> TRUE, start |-> 53, len |-> 16, statements |-> <<19,21>>, kids |-> <<18>>]),
  (* 18 *) Arr(<<19,21>>),
  (* 19 *) Obj([nodeType |-> "ExpressionStatement", hasSrc |-> TRUE, start |-> 55, len |-> 1, expression |-> 20, kids |-> <<20>>]),
  (* 20 *) Obj([nodeType |-> "Identifier", name |-> "y", hasSrc |-> TRUE, start |-> 55, len |-> 1]),
  (* 21 *) Obj([nodeType |-> "ExpressionStatement", hasSrc |-> TRUE, start |-> 58, len |-> 8, expression |-> 22, kids |-> <<22>>]),
  (* 22 *) Obj([nodeType |-> "FunctionCall", hasSrc |-> TRUE, start |-> 58, len |-> 8, expression |-> 26, arguments |-> <<24,25>>, kids |-> <<23,26>>]),
  (* 23 *) Arr(<<24,25>>),
  (* 24 *) Obj([nodeType |-> "Identifier", name |-> "c", hasSrc |-> TRUE, start |-> 60, len |-> 1]),
  (* 25 *) Obj([nodeType |-> "Identifier", name |-> "dd", hasSrc |-> TRUE, start |-> 63, len |-> 2]),
  (* 26 *) Obj([nodeType |-> "Identifier", name |-> "h", hasSrc |-> TRUE, start |-> 58, len |-> 1])
  >>

\* the input files of the model
Samples == {"A", "B"}

\* the bytes of a sample
Source(s) ==
  IF s = "A" THEN SourceA ELSE IF s = "B" THEN SourceB
  ELSE IF s = "M" THEN SourceM ELSE IF s = "S" THEN SourceS ELSE SourceW

\* the tree the compiler gives for a sample, the JSON null at id 0
AST(s) ==
  LET t == IF s = "A" THEN ASTA ELSE IF s = "B" THEN ASTB
           ELSE IF s = "M" THEN ASTM ELSE IF s = "S" THEN ASTS ELSE ASTW
  IN [id \in 0..Len(t) |-> IF id = 0 THEN Blank ELSE t[id]]

(***************************************************************************)
(* The state of a run (struct RunMutations, the locals of inner_loop, the  *)
(* files and the validity service).                                        *)
(***************************************************************************)
VARIABLES
  fnm,                  \* the input file (a sample)
  node,                 \* the AST of the file: node id -> JSON value
  source,               \* the bytes of the file
  mutation_types,       \* the allowed kinds, in the order given
  funcs_to_mutate,      \* None or Some of the function names to mutate
  contract,             \* Null or the contract to mutate
  num_mutants,          \* the quota
  seed,                 \* the seed the stream was made from
  rand,                 \* the random stream
  pc,                   \* "discover", "schedule", "inner_loop" or "done"
  mutation_points,      \* kind -> nodes, the group map
  points,               \* the keys of mutation_points as the map yields them
  mutation_points_todo, \* the work queue
  attempts,             \* attempts made
  mutants,              \* paths of the mutants written, in order
  seen,                 \* the seen set
  written,              \* the files of the mutant directory: path -> text
  oracle,               \* what the validity service answered: text -> BOOLEAN
  calls,                \* calls of the validity service made
  result,               \* "running", "ok" (Ok(mutants)) or "err" (Err)
  last,                 \* the last attempt: kind, node, candidate and outcome
  scheduled,            \* the work queue as get_mutations built it
  env_failed,           \* some file or service operation of the run failed
  run_no,               \* 1, or 2 once the run was repeated on the same inputs
  first,                \* what the first of two runs built and returned
  config,               \* the entries of the json config still to process
  cli,                  \* the MutationParams the command line gave
  params,               \* MutantGenerator.params
  rng,                  \* MutantGenerator.rng
  runs,                 \* the RunMutations values run_one built, in order
  call,                 \* a call of a text function: its name and arguments
  returned              \* what the call returned

vars ==
  <<fnm, node, source, mutation_types, funcs_to_mutate, contract, num_mutants, seed, rand, pc,
    mutation_points, points, mutation_points_todo, attempts, mutants, seen,
    written, oracle, calls, result, last, scheduled, env_failed, run_no, first,
    config, cli, params, rng, runs, call, returned>>

\* the inputs of a run
inputs ==
  <<fnm, node, source, mutation_types, funcs_to_mutate, contract, num_mutants, seed>>

\* what a run leaves alone: the record of the run before it
earlier == <<run_no, first>>

\* the MutantGenerator (main.rs) and the record of the runs it started
generator == <<config, cli, params, rng, runs>>

\* a call of a text function made outside a run
unit == <<call, returned>>

(***************************************************************************)
(* SolAST: a JSON value (here the id of the node in the tree) and the name *)
(* of the contract the node belongs to.                                    *)
(***************************************************************************)
\* SolAST::new(v, c): a null value carries no contract
New(id, c) == [id |-> id, contract |-> IF id = 0 THEN Null ELSE c]

\* the JSON value of a node
E(n) == node[n.id]

\* get_node(fnm): the field's value, with the contract of the node asked
GetNode(n, field) == [id |-> E(n)[field], contract |-> n.contract]

\* name(): the `name` field when it is a string
NameOf(n) == E(n).name

\* node_type(): the `nodeType` field when it is a string
NodeType(n) == E(n).nodeType

\* operator()
Operator(n) == E(n).operator

\* expression()
Expression(n) == GetNode(n, "expression")

\* left_expression()
LeftExpression(n) == GetNode(n, "leftExpression")

\* right_expression()
RightExpression(n) == GetNode(n, "rightExpression")

\* right_hand_side()
RightHandSide(n) == GetNode(n, "rightHandSide")

\* condition()
Condition(n) == GetNode(n, "condition")

\* arguments(): the elements of the `arguments` array, each through SolAST::new
Arguments(n) ==
  [i \in 1..Len(E(n).arguments) |-> New(E(n).arguments[i], n.contract)]

\* statements(): the elements of the `statements` array
Statements(n) ==
  [i \in 1..Len(E(n).statements) |-> New(E(n).statements[i], n.contract)]

\* get_bounds(): (start, start + length) of the `src` field "start:length"
GetBounds(n) == <<E(n).start, E(n).start + E(n).len>>

\* get_text(source): source[start..end]
GetText(n, src) == Slice(src, GetBounds(n)[1], GetBounds(n)[2])

\* replace_part(source, new, start, end)
ReplacePart(src, new, start, end) ==
  Slice(src, 0, start) \o new \o Slice(src, end, Len(src))

\* replace_in_source(source, new)
ReplaceInSource(n, src, new) ==
  ReplacePart(src, new, GetBounds(n)[1], GetBounds(n)[2])

\* (start, end, new) of one replacement of replace_multiple
Replacement(rep, src) ==
  [start |-> GetBounds(rep[1])[1], end |-> GetBounds(rep[1])[2], new |-> rep[2]]

RECURSIVE InsertByStart(_, _)
\* r placed after every element of the sorted rs whose start is <= its own
InsertByStart(r, rs) ==
  IF rs = <<>> THEN <<r>>
  ELSE IF Head(rs).start <= r.start THEN <<Head(rs)>> \o InsertByStart(r, Tail(rs))
  ELSE <<r>> \o rs

RECURSIVE SortedByStart(_)
\* sorted_by_key(|x| x.start): a stable sort
SortedByStart(rs) ==
  IF rs = <<>> THEN <<>>
  ELSE InsertByStart(rs[Len(rs)], SortedByStart(SubSeq(rs, 1, Len(rs) - 1)))

RECURSIVE ApplySorted(_, _, _)
\* the loop of replace_multiple; curr_offset wraps as usize does
ApplySorted(new_src, curr_offset, sorted) ==
  IF sorted = <<>> THEN new_src
  ELSE LET r == Head(sorted)
           actual_start == (r.start + curr_offset) % UsizeMod
           actual_end == (r.end + curr_offset) % UsizeMod
           new_offset == (Len(r.new) - (r.end - r.start)) % UsizeMod
       IN ApplySorted(Slice(new_src, 0, actual_start) \o r.new
                        \o Slice(new_src, actual_end, Len(new_src)),
                      (curr_offset + new_offset) % UsizeMod,
                      Tail(sorted))

\* replace_multiple(source, reps), reps a sequence of <<node, text>>
ReplaceMultiple(src, reps) ==
  ApplySorted(src, 0,
              SortedByStart([i \in 1..Len(reps) |-> Replacement(reps[i], src)]))

RECURSIVE OverflowsUsize(_, _)
\* whether `r.start + curr_offset` or `r.end + curr_offset`, written with a
\* plain `+`, leaves usize in the loop: a panic in a build with overflow
\* checks, a wrap in a build without them
OverflowsUsize(curr_offset, sorted) ==
  IF sorted = <<>> THEN FALSE
  ELSE LET r == Head(sorted)
           new_offset == (Len(r.new) - (r.end - r.start)) % UsizeMod
       IN \/ r.start + curr_offset >= UsizeMod
          \/ r.end + curr_offset >= UsizeMod
          \/ OverflowsUsize((curr_offset + new_offset) % UsizeMod, Tail(sorted))

\* comment_out(source): the span in /* */, one byte longer when a `*` follows
CommentOut(n, src) ==
  LET start == GetBounds(n)[1]
      end0 == GetBounds(n)[2]
      end == IF end0 < Len(src) /\ src[end0 + 1] = "*" THEN end0 + 1 ELSE end0
  IN ReplacePart(src, <<"/", "*">> \o Slice(src, start, end) \o <<"*", "/">>,
                 start, end)

(***************************************************************************)
(* The random stream.  rand_pcg::Pcg64 is a deterministic generator: the   *)
(* model keeps that and nothing else of it, as a linear congruential       *)
(* generator over RandMod states.  Every draw reads the state and advances *)
(* it.                                                                     *)
(***************************************************************************)
\* Pcg64::seed_from_u64(seed)
SeedFromU64(s) == s % RandMod

\* the state after one draw
RandNext(r) == (5 * r + 3) % RandMod

\* the index a draw from state r gives in a slice of n elements
GenIndex(r, n) == (r * n) \div RandMod

\* slice.choose(rand) on a non-empty slice
Choose(slice, r) == slice[GenIndex(r, Len(slice)) + 1]

\* v with the elements at (1-based) positions i and j exchanged
Swap(v, i, j) == [v EXCEPT ![i] = v[j], ![j] = v[i]]

RECURSIVE ShuffleFrom(_, _, _)
\* slice.shuffle(rand): for i in (1..len).rev() { swap(i, gen_index(i + 1)) }
ShuffleFrom(v, i, r) ==
  IF i < 1 THEN [v |-> v, rand |-> r]
  ELSE ShuffleFrom(Swap(v, i + 1, GenIndex(r, i + 1) + 1), i - 1, RandNext(r))

\* the shuffled vector and the stream after it
Shuffle(v, r) == ShuffleFrom(v, Len(v) - 1, r)

\* one decimal digit
Digit(d) == <<"0", "1", "2", "3", "4", "5", "6", "7", "8", "9">>[d + 1]

RECURSIVE ToDecimal(_)
\* n.to_string() of an unsigned integer
ToDecimal(n) == IF n < 10 THEN <<Digit(n)>> ELSE ToDecimal(n \div 10) \o <<Digit(n % 10)>>

(***************************************************************************)
(* The mutation kinds.                                                     *)
(***************************************************************************)
\* enum MutationType, in declaration order
MutationTypes ==
  <<"BinaryOpMutation", "RequireMutation", "AssignmentMutation",
    "DeleteExpressionMutation", "FunctionCallMutation", "IfStatementMutation",
    "SwapArgumentsFunctionMutation", "SwapArgumentsOperatorMutation",
    "SwapLinesMutation", "UnaryOperatorMutation", "ElimDelegateMutation">>

\* to_string() of a kind, as bytes
KindToString(k) ==
  CASE
     k = "BinaryOpMutation" -> <<"B","i","n","a","r","y","O","p","M","u","t","a","t","i","o","n">>
  [] k = "RequireMutation" -> <<"R","e","q","u","i","r","e","M","u","t","a","t","i","o","n">>
  [] k = "AssignmentMutation" -> <<"A","s","s","i","g","n","m","e","n","t","M","u","t","a","t","i","o","n">>
  [] k = "DeleteExpressionMutation" -> <<"D","e","l","e","t","e","E","x","p","r","e","s","s","i","o","n","M","u","t","a","t","i","o","n">>
  [] k = "FunctionCallMutation" -> <<"F","u","n","c","t","i","o","n","C","a","l","l","M","u","t","a","t","i","o","n">>
  [] k = "IfStatementMutation" -> <<"I","f","S","t","a","t","e","m","e","n","t","M","u","t","a","t","i","o","n">>
  [] k = "SwapArgumentsFunctionMutation" -> <<"S","w","a","p","A","r","g","u","m","e","n","t","s","F","u","n","c","t","i","o","n","M","u","t","a","t","i","o","n">>
  [] k = "SwapArgumentsOperatorMutation" -> <<"S","w","a","p","A","r","g","u","m","e","n","t","s","O","p","e","r","a","t","o","r","M","u","t","a","t","i","o","n">>
  [] k = "SwapLinesMutation" -> <<"S","w","a","p","L","i","n","e","s","M","u","t","a","t","i","o","n">>
  [] k = "UnaryOperatorMutation" -> <<"U","n","a","r","y","O","p","e","r","a","t","o","r","M","u","t","a","t","i","o","n">>
  [] k = "ElimDelegateMutation" -> <<"E","l","i","m","D","e","l","e","g","a","t","e","M","u","t","a","t","i","o","n">>

\* the bytes of an operator token
OpBytes(op) ==
  CASE op = "**" -> <<"*", "*">>
    [] op = "++" -> <<"+", "+">>
    [] op = "--" -> <<"-", "-">>
    [] op = ">=" -> <<">", "=">>
    [] op = "<=" -> <<"<", "=">>
    [] op = "<<" -> <<"<", "<">>
    [] op = ">>" -> <<">", ">">>
    [] OTHER -> <<op>>

\* is_mutation_point(node)
IsMutationPoint(k, n) ==
  CASE k = "BinaryOpMutation" -> NodeType(n) = "BinaryOperation"
    [] k = "RequireMutation" ->
         /\ NodeType(n) = "FunctionCall"
         /\ NameOf(Expression(n)) = "require"
         /\ Arguments(n) # <<>>
    [] k = "AssignmentMutation" -> NodeType(n) = "Assignment"
    [] k = "DeleteExpressionMutation" -> NodeType(n) = "ExpressionStatement"
    [] k = "FunctionCallMutation" ->
         NodeType(n) = "FunctionCall" /\ Arguments(n) # <<>>
    [] k = "IfStatementMutation" -> NodeType(n) = "IfStatement"
    [] k = "SwapArgumentsFunctionMutation" ->
         NodeType(n) = "FunctionCall" /\ Len(Arguments(n)) > 1
    [] k = "SwapArgumentsOperatorMutation" ->
         /\ NodeType(n) = "BinaryOperation"
         /\ Operator(n) \in {"-", "/", "%", "**", ">", "<", ">=", "<=", "<<", ">>"}
    [] k = "SwapLinesMutation" ->
         NodeType(n) = "Block" /\ Len(Statements(n)) > 1
    [] k = "UnaryOperatorMutation" -> NodeType(n) = "UnaryOperation"
    [] k = "ElimDelegateMutation" ->
         /\ NodeType(n) = "FunctionCall"
         /\ NodeType(Expression(n)) = "MemberAccess"
         /\ E(Expression(n)).memberName = "delegatecall"

\* "!(" + text + ")"
Negated(text) == <<"!", "(">> \o text \o <<")">>

\* the closure is_prefix(source, op) of the UnaryOperatorMutation arm
IsPrefix(src, op) == src[1] = OpBytes(op)[1]

\* " " + op + " ", the replacement of the BinaryOpMutation arm
Spaced(op) == <<" ">> \o OpBytes(op) \o <<" ">>

\* the candidate of a swap arm once its elements are shuffled: the texts of
\* the first two exchanged when there are exactly two, else node.get_text
SwapTwo(n, src, shuffled) ==
  IF Len(shuffled) = 2
  THEN ReplaceMultiple(src,
         << <<shuffled[1], GetText(shuffled[2], src)>>,
            <<shuffled[2], GetText(shuffled[1], src)>> >>)
  ELSE GetText(n, src)

\* the UnaryOperatorMutation arm
MutateUnary(n, src, r) ==
  LET start == GetBounds(n)[1]
      end == GetBounds(n)[2]
      op == OpBytes(Operator(n))
  IN IF IsPrefix(src, Operator(n))
     THEN ReplacePart(src, OpBytes(Choose(<<"++", "--", "~">>, r)),
                      start, start + Len(op))
     ELSE ReplacePart(src, OpBytes(Choose(<<"++", "--">>, r)),
                      end - Len(op), end)

\* mutate_randomly(node, source, rand): the candidate text and the stream
\* after the draws of the arm
MutateRandomly(k, n, src, r) ==
  CASE k = "BinaryOpMutation" ->
         [text |-> ReplacePart(src,
                     Spaced(Choose(<<"+", "-", "*", "/", "%", "**">>, r)),
                     GetBounds(LeftExpression(n))[2],
                     GetBounds(RightExpression(n))[1]),
          rand |-> RandNext(r)]
    [] k = "RequireMutation" ->
         LET arg == Arguments(n)[1]
         IN [text |-> ReplaceInSource(arg, src, Negated(GetText(arg, src))),
             rand |-> r]
    [] k = "DeleteExpressionMutation" ->
         [text |-> CommentOut(n, src), rand |-> r]
    [] k = "FunctionCallMutation" ->
         IF Arguments(n) # <<>>
         THEN [text |-> ReplaceInSource(n, src,
                          GetText(Choose(Arguments(n), r), src)),
               rand |-> RandNext(r)]
         ELSE [text |-> GetText(n, src), rand |-> r]
    [] k = "IfStatementMutation" ->
         LET cond == Condition(n)
         IN IF Choose(<<TRUE, FALSE>>, r)
            THEN [text |-> ReplaceInSource(cond, src,
                             IF Choose(<<TRUE, FALSE>>, RandNext(r))
                             THEN <<"t", "r", "u", "e">>
                             ELSE <<"f", "a", "l", "s", "e">>),
                  rand |-> RandNext(RandNext(r))]
            ELSE [text |-> ReplaceInSource(cond, src, Negated(GetText(cond, src))),
                  rand |-> RandNext(r)]
    [] k = "SwapArgumentsFunctionMutation" ->
         LET sh == Shuffle(Arguments(n), r)
         IN [text |-> SwapTwo(n, src, sh.v), rand |-> sh.rand]
    [] k = "SwapArgumentsOperatorMutation" ->
         LET left == LeftExpression(n)
             right == RightExpression(n)
         IN [text |-> ReplaceMultiple(src,
                        << <<left, GetText(right, src)>>,
                           <<right, GetText(left, src)>> >>),
             rand |-> r]
    [] k = "SwapLinesMutation" ->
         LET sh == Shuffle(Statements(n), r)
         IN [text |-> SwapTwo(n, src, sh.v), rand |-> sh.rand]
    [] k = "UnaryOperatorMutation" ->
         [text |-> MutateUnary(n, src, r), rand |-> RandNext(r)]
    [] k = "AssignmentMutation" ->
         LET new == << <<"t", "r", "u", "e">>, <<"f", "a", "l", "s", "e">>,
                       <<"0">>, <<"1">>, ToDecimal(r) >>
         IN [text |-> ReplaceInSource(RightHandSide(n), src,
                        Choose(new, RandNext(r))),
             rand |-> RandNext(RandNext(r))]
    [] k = "ElimDelegateMutation" ->
         [text |-> ReplacePart(src, <<"c", "a", "l", "l">>,
                     GetBounds(Expression(Expression(n)))[2] + 1,
                     GetBounds(Expression(n))[2]),
          rand |-> r]

(***************************************************************************)
(* Discovery: the closures of mk_closures and the traversal.               *)
(***************************************************************************)
\* is_assert_call(node): the node's `name` field is "assert"
IsAssertCall(n) == NameOf(n) = "assert"

\* a visitor that pairs a node with every allowed kind once one of them
\* applies to it
VisitorEveryKind(types, n) ==
  IF \E i \in DOMAIN types : IsMutationPoint(types[i], n)
  THEN [i \in 1..Len(types) |-> <<types[i], n>>]
  ELSE <<>>

\* the visitor closure: the allowed kinds applicable to the node, in the
\* order of mutation_types, each paired with the node
Visitor(types, n) ==
  LET applicable == SelectSeq(types, LAMBDA m : IsMutationPoint(m, n))
  IN [i \in 1..Len(applicable) |-> <<applicable[i], n>>]

\* Option<Vec<String>>: None, or Some of the names
None == [some |-> FALSE, names |-> {}]

Some(names) == [some |-> TRUE, names |-> names]

\* an accept closure that takes any contract for the one in scope
AcceptAnyContract(scope, funcs, n) ==
  CASE scope = Null /\ ~funcs.some -> TRUE
    [] scope # Null /\ ~funcs.some -> n.contract # Null
    [] scope = Null /\ funcs.some ->
         NodeType(n) = "FunctionDefinition" /\ NameOf(n) \in funcs.names
    [] OTHER ->
         /\ n.contract # Null
         /\ NodeType(n) = "FunctionDefinition"
         /\ NameOf(n) \in funcs.names

\* an accept closure that takes any function definition for a listed one
AcceptAnyFunction(scope, funcs, n) ==
  CASE scope = Null /\ ~funcs.some -> TRUE
    [] scope # Null /\ ~funcs.some -> n.contract = scope
    [] scope = Null /\ funcs.some -> NodeType(n) = "FunctionDefinition"
    [] OTHER -> n.contract = scope /\ NodeType(n) = "FunctionDefinition"

\* the accept closure
Accept(scope, funcs, n) ==
  CASE scope = Null /\ ~funcs.some -> TRUE
    [] scope # Null /\ ~funcs.some -> n.contract = scope
    [] scope = Null /\ funcs.some ->
         NodeType(n) = "FunctionDefinition" /\ NameOf(n) \in funcs.names
    [] OTHER ->
         /\ n.contract = scope
         /\ NodeType(n) = "FunctionDefinition"
         /\ NameOf(n) \in funcs.names

RECURSIVE TraverseInternal(_, _, _, _, _)
RECURSIVE TraverseKids(_, _, _, _, _, _)

RECURSIVE TraverseKidsLeaky(_, _, _, _, _, _)
\* kids that follow a contract declaration are given the name it declares
TraverseKidsLeaky(types, scope, funcs, kids, c, accepted) ==
  IF kids = <<>> THEN <<>>
  ELSE TraverseInternal(types, scope, funcs,
                        New(Head(kids), c), accepted)
       \o TraverseKidsLeaky(types, scope, funcs, Tail(kids),
                            IF node[Head(kids)].contractKind
                            THEN node[Head(kids)].name ELSE c,
                            accepted)

\* the kids of a node from the i-th on, each as SolAST::new(kid, contract)
TraverseKids(types, scope, funcs, kids, c, accepted) ==
  IF kids = <<>> THEN <<>>
  ELSE TraverseInternal(types, scope, funcs,
                        New(Head(kids), c), accepted)
       \o TraverseKids(types, scope, funcs, Tail(kids), c, accepted)

\* a traversal in which acceptance is not inherited: the kids are given
\* `accepted` as it was passed in
TraverseInternalUnsticky(types, scope, funcs, self, accepted) ==
  LET new_accepted == accepted \/ Accept(scope, funcs, self)
      res == Visitor(types, self)
      own == IF new_accepted /\ res # <<>> THEN <<res>> ELSE <<>>
      e == E(self)
      c == IF e.json = "object" /\ e.contractKind THEN e.name ELSE self.contract
  IN IF IsAssertCall(self) THEN <<>>
     ELSE own \o TraverseKids(types, scope, funcs, e.kids, c, accepted)

\* traverse_internal(visitor, skip, accept, accepted, acc): what it appends to acc
TraverseInternal(types, scope, funcs, self, accepted) ==
  LET new_accepted == accepted \/ Accept(scope, funcs, self)
      res == Visitor(types, self)
      own == IF new_accepted /\ res # <<>> THEN <<res>> ELSE <<>>
      e == E(self)
      c == IF e.json = "object" /\ e.contractKind THEN e.name ELSE self.contract
  IN IF IsAssertCall(self) THEN <<>>
     ELSE own \o TraverseKids(types, scope, funcs, e.kids, c, new_accepted)

\* traverse(visitor, skip, accept) on the root of the tree, then flatten()
Traverse(types, scope, funcs) ==
  Concat(TraverseInternal(types, scope, funcs, New(1, Null), FALSE))

\* the kinds of a list of (kind, node) pairs
KindsOf(mutations) == {mutations[i][1] : i \in DOMAIN mutations}

\* into_group_map(): each kind to its nodes, in the order they were found
IntoGroupMap(mutations) ==
  [k \in KindsOf(mutations) |->
     LET hits == SelectSeq(mutations, LAMBDA m : m[1] = k)
     IN [i \in 1..Len(hits) |-> hits[i][2]]]

\* the orders in which a HashMap may yield the keys ks
KeyOrders(ks) ==
  {o \in [1..Cardinality(ks) -> ks] : \A i, j \in DOMAIN o : i # j => o[i] # o[j]}

RECURSIVE ScheduleFullPasses(_, _, _)
\* a schedule whose last pass is not truncated to the remaining quota
ScheduleFullPasses(keys, remaining, todo) ==
  IF remaining > 0
  THEN ScheduleFullPasses(keys, remaining - Len(keys), todo \o keys)
  ELSE todo

RECURSIVE Schedule(_, _, _)
\* the scheduling loop of get_mutations: passes over the keys while remaining > 0
Schedule(keys, remaining, todo) ==
  IF remaining > 0
  THEN LET to_take == IF remaining < Len(keys) THEN remaining ELSE Len(keys)
       IN Schedule(keys, remaining - Len(keys), todo \o SubSeq(keys, 1, to_take))
  ELSE todo

(***************************************************************************)
(* Provenance comment.                                                     *)
(***************************************************************************)
RECURSIVE LinesFrom(_, _)
\* the lines next_line_raw() yields from text: split at "\n", terminator
\* dropped, no line after a final terminator; cur is the line being read
LinesFrom(text, cur) ==
  IF text = <<>> THEN (IF cur = <<>> THEN <<>> ELSE <<cur>>)
  ELSE IF Head(text) = "\n" THEN <<cur>> \o LinesFrom(Tail(text), <<>>)
  ELSE LinesFrom(Tail(text), Append(cur, Head(text)))

\* all the lines of a text
Lines(text) == LinesFrom(text, <<>>)

\* char::is_whitespace on the bytes the model has
IsWhitespace(ch) == ch \in {" ", "\t", "\n", "\r"}

RECURSIVE TrimStart(_)
\* str::trim_start
TrimStart(t) == IF t # <<>> /\ IsWhitespace(Head(t)) THEN TrimStart(Tail(t)) ELSE t

RECURSIVE TrimEnd(_)
\* str::trim_end
TrimEnd(t) ==
  IF t # <<>> /\ IsWhitespace(t[Len(t)]) THEN TrimEnd(SubSeq(t, 1, Len(t) - 1)) ELSE t

\* str::trim
Trim(t) == TrimEnd(TrimStart(t))

\* get_indent(line): the leading whitespace of the line
GetIndent(line) == SubSeq(line, 1, Len(line) - Len(TrimStart(line)))

RECURSIVE WithNewlines(_)
\* each line followed by "\n", concatenated
WithNewlines(ls) ==
  IF ls = <<>> THEN <<>> ELSE Head(ls) \o <<"\n">> \o WithNewlines(Tail(ls))

RECURSIVE CommentBelow(_, _, _, _)
\* the comment placed under the first differing mutant line, not above it
CommentBelow(l1s, l2s, i, mut_type) ==
  IF i > Len(l1s) \/ i > Len(l2s)
  THEN WithNewlines(SubSeq(l2s, i + 1, Len(l2s)))
  ELSE LET l1_to_str == l1s[i] \o <<"\n">>
           l2_to_str == l2s[i] \o <<"\n">>
       IN IF l1_to_str # l2_to_str
          THEN l2_to_str
                 \o GetIndent(l1_to_str) \o <<"/", "/", "/", " ">> \o KindToString(mut_type)
                 \o <<" ", "o", "f", ":", " ">> \o Trim(l1_to_str) \o <<"\n">>
                 \o WithNewlines(SubSeq(l2s, i + 1, Len(l2s)))
          ELSE l2_to_str \o CommentBelow(l1s, l2s, i + 1, mut_type)

RECURSIVE CommentFrom(_, _, _, _)
\* the two loops of add_mutant_comment from line i on
CommentFrom(l1s, l2s, i, mut_type) ==
  IF i > Len(l1s) \/ i > Len(l2s)
  THEN WithNewlines(SubSeq(l2s, i + 1, Len(l2s)))
  ELSE LET l1_to_str == l1s[i] \o <<"\n">>
           l2_to_str == l2s[i] \o <<"\n">>
       IN IF l1_to_str # l2_to_str
          THEN GetIndent(l1_to_str) \o <<"/", "/", "/", " ">> \o KindToString(mut_type)
                 \o <<" ", "o", "f", ":", " ">> \o Trim(l1_to_str)
                 \o <<"\n">> \o l2_to_str
                 \o WithNewlines(SubSeq(l2s, i + 1, Len(l2s)))
          ELSE l2_to_str \o CommentFrom(l1s, l2s, i + 1, mut_type)

\* add_mutant_comment(src_path, mutant, mut_type) when the source can be scanned
AddMutantComment(src, mutant, mut_type) ==
  CommentFrom(Lines(src), Lines(mutant), 1, mut_type)

(***************************************************************************)
(* The run: RunMutations::get_mutations and inner_loop as a state machine. *)
(***************************************************************************)
\* the lists of allowed kinds the model runs with
KindLists ==
  { <<"BinaryOpMutation">>,
    <<"UnaryOperatorMutation">>,
    <<"SwapLinesMutation", "SwapArgumentsFunctionMutation">>,
    <<"BinaryOpMutation", "SwapLinesMutation">> }

\* the (contract, functions) scopes the model runs with
Scopes == { <<Null, None>>, <<"C", None>>, <<Null, Some({"f"})>> }

\* no attempt made yet
NoAttempt == [mut_type |-> Null, point |-> 0, mutant |-> <<>>, outcome |-> Null]

\* no run made yet
NoRun == [scheduled |-> <<>>, mutants |-> <<>>, written |-> <<>>, result |-> Null]

\* no text function called
NoCall == [fn |-> Null, src |-> <<>>, reps |-> <<>>, overflow_checks |-> FALSE]

\* nothing returned
NoReturn == [outcome |-> Null, value |-> <<>>]

\* MutantGenerator::new(params)
NewGenerator(p) ==
  /\ cli = p
  /\ params = p
  /\ rng = SeedFromU64(p.seed)

Init ==
  /\ fnm \in Samples
  /\ node = AST(fnm)
  /\ source = Source(fnm)
  /\ mutation_types \in KindLists
  /\ \E sc \in Scopes : contract = sc[1] /\ funcs_to_mutate = sc[2]
  /\ num_mutants \in 0..MaxQuota
  /\ seed \in 0..MaxSeed
  /\ rand = SeedFromU64(seed)
  /\ pc = "discover"
  /\ mutation_points = <<>>
  /\ points = <<>>
  /\ mutation_points_todo = <<>>
  /\ attempts = 0
  /\ mutants = <<>>
  /\ seen = {}
  /\ written = <<>>
  /\ oracle = <<>>
  /\ calls = 0
  /\ result = "running"
  /\ last = NoAttempt
  /\ scheduled = <<>>
  /\ env_failed = FALSE
  /\ run_no = 1
  /\ first = NoRun
  /\ NewGenerator([num_mutants |-> num_mutants, seed |-> seed, solc |-> "solc"])
  /\ config = <<>>
  /\ runs = <<>>
  /\ call = NoCall
  /\ returned = NoReturn

\* the (kind, node) pairs the traversal of the run finds
Mutations == Traverse(mutation_types, contract, funcs_to_mutate)

\* get_mutations up to the group map; no mutation point ends the run
Discover ==
  /\ pc = "discover"
  /\ IF Mutations = <<>>
     THEN /\ pc' = "done"
          /\ result' = "ok"
          /\ UNCHANGED mutation_points
     ELSE /\ pc' = "schedule"
          /\ mutation_points' = IntoGroupMap(Mutations)
          /\ UNCHANGED result
  /\ UNCHANGED <<inputs, generator, unit, earlier, rand, points, mutation_points_todo, attempts,
                 mutants, seen, written, oracle, calls, last, scheduled, env_failed>>

\* a seen set that starts empty: the original is not put into it
InitialSeenEmpty == {}

\* the seen set at the entry of inner_loop: seen.insert(source_to_str)
InitialSeen == {source}

\* the scheduling loop of get_mutations and the entry of inner_loop
DoSchedule ==
  /\ pc = "schedule"
  /\ \E o \in KeyOrders(DOMAIN mutation_points) :
       /\ points' = o
       /\ mutation_points_todo' = Schedule(o, num_mutants, <<>>)
       /\ scheduled' = Schedule(o, num_mutants, <<>>)
  /\ seen' = InitialSeen
  /\ attempts' = 0
  /\ pc' = "inner_loop"
  /\ UNCHANGED <<inputs, generator, unit, earlier, rand, mutation_points, mutants, written, oracle,
                 calls, result, last, env_failed>>

\* num_mutants * ATTEMPTS
total_attempts == num_mutants * ATTEMPTS

\* a loop that stops one attempt short of the budget
LoopGuardOffByOne == mutation_points_todo # <<>> /\ attempts + 1 < total_attempts

\* the condition of the while loop of inner_loop
LoopGuard == mutation_points_todo # <<>> /\ attempts < total_attempts

\* mutation_points_todo.remove(0)
mut_type == Head(mutation_points_todo)

\* points.choose(&mut rand) of the popped kind
point == Choose(mutation_points[mut_type], rand)

\* mut_type.mutate_randomly(point, &source, &mut rand)
generated == MutateRandomly(mut_type, point, source, RandNext(rand))

\* the candidate text
mutant == generated.text

\* the attempt as `last` records it
Attempted(outcome) ==
  [mut_type |-> mut_type, point |-> point.id, mutant |-> mutant, outcome |-> outcome]

\* the answers is_valid may give for a text: the one given before, else any
Answers(text) == IF text \in DOMAIN oracle THEN {oracle[text]} ELSE BOOLEAN

\* the oracle once it answered v for text
Answered(text, v) == [t \in DOMAIN oracle \cup {text} |-> IF t = text THEN v ELSE oracle[t]]

\* an else branch that does not count the attempt
RequeueUncounted ==
  /\ mutation_points_todo' = Append(Tail(mutation_points_todo), mut_type)
  /\ seen' = seen \cup {mutant}
  /\ attempts' = attempts
  /\ rand' = generated.rand
  /\ UNCHANGED <<inputs, generator, unit, earlier, pc, mutation_points, points, mutants, written,
                 result, scheduled, env_failed>>

\* an else branch that puts the kind back at the front of the queue
RequeueFront ==
  /\ mutation_points_todo' = <<mut_type>> \o Tail(mutation_points_todo)
  /\ seen' = seen \cup {mutant}
  /\ attempts' = attempts + 1
  /\ rand' = generated.rand
  /\ UNCHANGED <<inputs, generator, unit, earlier, pc, mutation_points, points, mutants, written,
                 result, scheduled, env_failed>>

\* the else branch: the kind goes to the back, the text into seen
Requeue ==
  /\ mutation_points_todo' = Append(Tail(mutation_points_todo), mut_type)
  /\ seen' = seen \cup {mutant}
  /\ attempts' = attempts + 1
  /\ rand' = generated.rand
  /\ UNCHANGED <<inputs, generator, unit, earlier, pc, mutation_points, points, mutants, written,
                 result, scheduled, env_failed>>

\* an iteration whose candidate is in seen: is_valid is not called
AttemptDuplicate ==
  /\ pc = "inner_loop" /\ LoopGuard
  /\ mutant \in seen
  /\ Requeue
  /\ last' = Attempted("duplicate")
  /\ UNCHANGED <<oracle, calls>>

\* an iteration whose candidate the validity service rejects
AttemptInvalid ==
  /\ pc = "inner_loop" /\ LoopGuard
  /\ mutant \notin seen
  /\ FALSE \in Answers(mutant)
  /\ oracle' = Answered(mutant, FALSE)
  /\ calls' = calls + 1
  /\ Requeue
  /\ last' = Attempted("invalid")

\* an iteration in which is_valid returns Err: inner_loop returns it
AttemptServiceError ==
  /\ pc = "inner_loop" /\ LoopGuard
  /\ mutant \notin seen
  /\ calls' = calls + 1
  /\ mutation_points_todo' = Tail(mutation_points_todo)
  /\ rand' = generated.rand
  /\ pc' = "done"
  /\ result' = "err"
  /\ last' = Attempted("service_error")
  /\ env_failed' = TRUE
  /\ UNCHANGED <<inputs, generator, unit, earlier, mutation_points, points, attempts, mutants, seen,
                 written, oracle, scheduled>>

\* the text written for a valid candidate: the annotated one, or the
\* candidate itself when add_mutant_comment returns Err
Annotated(scan_ok) ==
  IF scan_ok THEN AddMutantComment(source, mutant, mut_type) ELSE mutant

\* an iteration whose candidate is new and valid: the mutant is written
AttemptPersist ==
  /\ pc = "inner_loop" /\ LoopGuard
  /\ mutant \notin seen
  /\ TRUE \in Answers(mutant)
  /\ oracle' = Answered(mutant, TRUE)
  /\ calls' = calls + 1
  /\ \E scan_ok \in BOOLEAN :
       /\ written' = [f \in DOMAIN written \cup {attempts} |->
                        IF f = attempts THEN Annotated(scan_ok) ELSE written[f]]
       /\ seen' = seen \cup {Annotated(scan_ok)}
       /\ env_failed' = (env_failed \/ ~scan_ok)
  /\ mutants' = Append(mutants, attempts)
  /\ mutation_points_todo' = Tail(mutation_points_todo)
  /\ attempts' = attempts + 1
  /\ rand' = generated.rand
  /\ last' = Attempted("persisted")
  /\ UNCHANGED <<inputs, generator, unit, earlier, pc, mutation_points, points, result, scheduled>>

\* an iteration whose candidate is new and valid, but std::fs::write or
\* diff_mutant returns Err: inner_loop returns it
AttemptPersistError ==
  /\ pc = "inner_loop" /\ LoopGuard
  /\ mutant \notin seen
  /\ TRUE \in Answers(mutant)
  /\ oracle' = Answered(mutant, TRUE)
  /\ calls' = calls + 1
  /\ \E scan_ok, wrote \in BOOLEAN :
       written' = IF wrote
                  THEN [f \in DOMAIN written \cup {attempts} |->
                          IF f = attempts THEN Annotated(scan_ok) ELSE written[f]]
                  ELSE written
  /\ mutation_points_todo' = Tail(mutation_points_todo)
  /\ rand' = generated.rand
  /\ pc' = "done"
  /\ result' = "err"
  /\ last' = Attempted("persist_error")
  /\ env_failed' = TRUE
  /\ UNCHANGED <<inputs, generator, unit, earlier, mutation_points, points, attempts, mutants, seen,
                 scheduled>>

\* whether num_mutants.try_into() gives a usize: unwrap() panics when not
FitsUsize(n) == n >= 0

\* the loop ends: the test of the report made after it, then Ok(mutants)
LoopExit ==
  /\ pc = "inner_loop" /\ ~LoopGuard
  /\ pc' = "done"
  /\ result' = IF attempts >= total_attempts /\ ~FitsUsize(num_mutants)
               THEN "panic" ELSE "ok"
  /\ UNCHANGED <<inputs, generator, unit, earlier, rand, mutation_points, points,
                 mutation_points_todo, attempts, mutants, seen, written, oracle,
                 calls, last, scheduled, env_failed>>

Next ==
  \/ Discover
  \/ DoSchedule
  \/ AttemptDuplicate
  \/ AttemptInvalid
  \/ AttemptServiceError
  \/ AttemptPersist
  \/ AttemptPersistError
  \/ LoopExit

Spec == Init /\ [][Next]_vars

\* a step of a run that has not returned: it moves the program counter or
\* counts an attempt, as every step of Next does
Running ==
  /\ pc # "done"
  /\ pc' \in {"schedule", "inner_loop", "done"}
  /\ attempts' \in {attempts, attempts + 1}

\* get_mutations is a sequential function that runs on until it returns: a
\* run that has not returned takes its next step
FairSpec == Spec /\ WF_<<pc, attempts>>(Running)

(***************************************************************************)
(* A second run on the same inputs: the same tree, source, quota, seed,    *)
(* kinds and scope, a stream seeded anew, an empty mutant directory, and a *)
(* validity service that answers as it did.  Only a run that returned      *)
(* Ok(mutants) with no file or service failure is repeated.                *)
(***************************************************************************)
Rerun ==
  /\ pc = "done"
  /\ result = "ok"
  /\ ~env_failed
  /\ run_no = 1
  /\ run_no' = 2
  /\ first' = [scheduled |-> scheduled, mutants |-> mutants, written |-> written,
               result |-> result]
  /\ rand' = SeedFromU64(seed)
  /\ pc' = "discover"
  /\ mutation_points' = <<>>
  /\ points' = <<>>
  /\ mutation_points_todo' = <<>>
  /\ attempts' = 0
  /\ mutants' = <<>>
  /\ seen' = {}
  /\ written' = <<>>
  /\ calls' = 0
  /\ result' = "running"
  /\ last' = NoAttempt
  /\ scheduled' = <<>>
  /\ UNCHANGED <<inputs, generator, unit, oracle, env_failed>>

NextTwice == Next \/ Rerun

SpecTwice == Init /\ [][NextTwice]_vars

(***************************************************************************)
(* The validity service as run_one builds it (main.rs): the closure writes *)
(* the candidate to a file, runs the compiler on it and answers by the     *)
(* exit code.  A compiler that exits answers as in AttemptInvalid and      *)
(* AttemptPersist; a compiler ended by a signal has no exit code, and the  *)
(* closure's `None => false` arm answers false.                            *)
(***************************************************************************)
\* an iteration in which the compiler is killed by a signal: the closure
\* answers false and the loop goes on as for a rejected candidate
AttemptKilled ==
  /\ pc = "inner_loop" /\ LoopGuard
  /\ mutant \notin seen
  /\ calls' = calls + 1
  /\ Requeue
  /\ last' = Attempted("killed")
  /\ UNCHANGED oracle

NextService == Next \/ AttemptKilled

\* the runs on the first sample, whole file in scope, of quota 0 or 1
InitService ==
  /\ Init
  /\ fnm = "A"
  /\ num_mutants <= 1
  /\ contract = Null
  /\ ~funcs_to_mutate.some

SpecService == InitService /\ [][NextService]_vars

(***************************************************************************)
(* Discovery alone: get_mutations up to the group map, on all three        *)
(* sample files and on scopes that name either contract, both, or neither. *)
(***************************************************************************)
\* the lists of allowed kinds discovery runs with
KindListsDiscover ==
  { <<"BinaryOpMutation">>,
    <<"DeleteExpressionMutation", "SwapArgumentsOperatorMutation">>,
    MutationTypes }

\* the (contract, functions) scopes discovery runs with
ScopesDiscover ==
  { <<Null, None>>, <<"C", None>>, <<"D", None>>, <<"E", None>>,
    <<Null, Some({"f"})>>, <<Null, Some({"g", "k"})>>,
    <<"C", Some({"f"})>>, <<"D", Some({"f", "g"})>>, <<Null, Some({"f", "assert"})>> }

InitDiscover ==
  /\ fnm \in Samples \cup {"M"}
  /\ node = AST(fnm)
  /\ source = Source(fnm)
  /\ mutation_types \in KindListsDiscover
  /\ \E sc \in ScopesDiscover : contract = sc[1] /\ funcs_to_mutate = sc[2]
  /\ num_mutants \in 0..MaxQuota
  /\ seed = 0
  /\ rand = SeedFromU64(seed)
  /\ pc = "discover"
  /\ mutation_points = <<>>
  /\ points = <<>>
  /\ mutation_points_todo = <<>>
  /\ attempts = 0
  /\ mutants = <<>>
  /\ seen = {}
  /\ written = <<>>
  /\ oracle = <<>>
  /\ calls = 0
  /\ result = "running"
  /\ last = NoAttempt
  /\ scheduled = <<>>
  /\ env_failed = FALSE
  /\ run_no = 1
  /\ first = NoRun
  /\ NewGenerator([num_mutants |-> num_mutants, seed |-> seed, solc |-> "solc"])
  /\ config = <<>>
  /\ runs = <<>>
  /\ call = NoCall
  /\ returned = NoReturn

SpecDiscover == InitDiscover /\ [][Discover]_vars

(***************************************************************************)
(* replace_multiple alone: called on a short source with replacements of   *)
(* nodes whose spans do not overlap, given in any order, by a build with   *)
(* or without overflow checks.                                             *)
(***************************************************************************)
\* the source replace_multiple is called on
SourceR == <<"a", "b", "c", "d", "e", "f">>

\* a tree with one node for every non-empty span of SourceR: the node of id
\* s * Len(SourceR) + len has the `src` field "s:len"
ASTR ==
  LET L == Len(SourceR)
  IN [id \in 0..(L * L) |->
        IF id > 0 /\ ((id - 1) \div L) + ((id - 1) % L) + 1 <= L
        THEN Obj([hasSrc |-> TRUE, start |-> (id - 1) \div L, len |-> ((id - 1) % L) + 1])
        ELSE Blank]

\* the replacement texts: shorter, as long as, or longer than the spans
TextsR == { <<>>, <<"X">>, <<"Y", "Z", "W">> }

\* whether the spans of two nodes do not overlap
Apart(m, n) ==
  GetBounds(m)[2] <= GetBounds(n)[1] \/ GetBounds(n)[2] <= GetBounds(m)[1]

\* the arguments `reps`: up to MaxReps (node, text) pairs, in any order, the
\* spans of the nodes pairwise apart
RepsR ==
  LET ids == { id \in DOMAIN node : node[id].hasSrc }
      pairs == { <<New(id, Null), t>> : id \in ids, t \in TextsR }
  IN { reps \in UNION { [1..n -> pairs] : n \in 1..MaxReps } :
         \A i, j \in DOMAIN reps : i < j => Apart(reps[i][1], reps[j][1]) }

\* a run not started, no text function called
Idle ==
  /\ pc = "discover"
  /\ mutation_points = <<>>
  /\ points = <<>>
  /\ mutation_points_todo = <<>>
  /\ attempts = 0
  /\ mutants = <<>>
  /\ seen = {}
  /\ written = <<>>
  /\ oracle = <<>>
  /\ calls = 0
  /\ result = "running"
  /\ last = NoAttempt
  /\ scheduled = <<>>
  /\ env_failed = FALSE
  /\ run_no = 1
  /\ first = NoRun
  /\ config = <<>>
  /\ runs = <<>>
  /\ call = NoCall
  /\ returned = NoReturn

\* the state of a run, which a call of a text function leaves alone
run ==
  <<rand, pc, mutation_points, points, mutation_points_todo, attempts, mutants, seen,
    written, oracle, calls, result, last, scheduled, env_failed>>

InitReplace ==
  /\ fnm = "R"
  /\ node = ASTR
  /\ source = SourceR
  /\ mutation_types = MutationTypes
  /\ contract = Null
  /\ funcs_to_mutate = None
  /\ num_mutants = 0
  /\ seed = 0
  /\ rand = SeedFromU64(seed)
  /\ NewGenerator([num_mutants |-> num_mutants, seed |-> seed, solc |-> "solc"])
  /\ Idle

\* node.replace_multiple(source, reps)
CallReplaceMultiple ==
  /\ call = NoCall
  /\ \E reps \in RepsR, overflow_checks \in BOOLEAN :
       LET sorted == SortedByStart([i \in 1..Len(reps) |-> Replacement(reps[i], source)])
       IN /\ call' = [fn |-> "replace_multiple", src |-> source, reps |-> reps,
                      overflow_checks |-> overflow_checks]
          /\ returned' = IF overflow_checks /\ OverflowsUsize(0, sorted)
                         THEN [outcome |-> "panic", value |-> <<>>]
                         ELSE [outcome |-> "ok", value |-> ReplaceMultiple(source, reps)]
  /\ UNCHANGED <<inputs, generator, earlier, run>>

SpecReplace == InitReplace /\ [][CallReplaceMultiple]_vars

(***************************************************************************)
(* Several runs of one invocation (main.rs): run_from_config processes the *)
(* entries of the config one after the other, each with a call of run_one. *)
(* An optional key of an entry is <<>> when absent and <<v>> when present. *)
(* An entry without optional keys is run as a file given with --filename   *)
(* is, but for the contract: run_one(f, None, None, contract).             *)
(***************************************************************************)
\* the entries of a config: a "filename", a "contract" and the optional keys
\* "num-mutants", "seed" and "solc"
Entries ==
  { [filename |-> "S", contract |-> "C", num_mutants |-> n, seed |-> s, solc |-> c] :
      n \in {<<>>, <<1>>}, s \in {<<>>, <<1>>}, c \in {<<>>, <<"solc-0.8">>} }

\* the value of an optional key, or the given value when the key is absent
GetOr(key, value) == IF key # <<>> THEN key[1] ELSE value

\* self.params after the `if let Some(..)` assignments of process_single_file
Overridden(p, v) ==
  [num_mutants |-> GetOr(v.num_mutants, p.num_mutants),
   solc |-> GetOr(v.solc, p.solc),
   seed |-> GetOr(v.seed, p.seed)]

InitConfig ==
  /\ config \in [1..2 -> Entries]
  /\ NewGenerator([num_mutants |-> MaxQuota, seed |-> 0, solc |-> "solc"])
  /\ runs = <<>>
  /\ fnm = "S"
  /\ node = AST(fnm)
  /\ source = Source(fnm)
  /\ mutation_types = MutationTypes
  /\ contract = Null
  /\ funcs_to_mutate = None
  /\ num_mutants = cli.num_mutants
  /\ seed = cli.seed
  /\ rand = rng
  /\ pc = "idle"
  /\ mutation_points = <<>>
  /\ points = <<>>
  /\ mutation_points_todo = <<>>
  /\ attempts = 0
  /\ mutants = <<>>
  /\ seen = {}
  /\ written = <<>>
  /\ oracle = <<>>
  /\ calls = 0
  /\ result = "running"
  /\ last = NoAttempt
  /\ scheduled = <<>>
  /\ env_failed = FALSE
  /\ run_no = 1
  /\ first = NoRun
  /\ call = NoCall
  /\ returned = NoReturn

\* process_single_file(v) up to the call of get_mutations inside run_one: the
\* overrides are assigned to self.params, then run_one builds the
\* RunMutations value from self.params and a clone of self.rng.  The steps of
\* the run follow as in Next.  The validity service answers as before while
\* the compiler stays the same.
ProcessEntry ==
  /\ pc \in {"idle", "done"}
  /\ config # <<>>
  /\ LET v == Head(config)
         p == Overridden(params, v)
     IN /\ params' = p
        /\ config' = Tail(config)
        /\ fnm' = v.filename
        /\ node' = AST(v.filename)
        /\ source' = Source(v.filename)
        /\ mutation_types' = MutationTypes
        /\ funcs_to_mutate' = None
        /\ contract' = v.contract
        /\ num_mutants' = p.num_mutants
        /\ rand' = rng
        /\ runs' = Append(runs, [entry |-> v, num_mutants |-> p.num_mutants,
                                 solc |-> p.solc, seed |-> p.seed, rand |-> rng])
        /\ oracle' = IF p.solc = params.solc THEN oracle ELSE <<>>
  /\ pc' = "discover"
  /\ mutation_points' = <<>>
  /\ points' = <<>>
  /\ mutation_points_todo' = <<>>
  /\ attempts' = 0
  /\ mutants' = <<>>
  /\ seen' = {}
  /\ written' = <<>>
  /\ calls' = 0
  /\ result' = "running"
  /\ last' = NoAttempt
  /\ scheduled' = <<>>
  /\ env_failed' = FALSE
  /\ UNCHANGED <<seed, cli, rng, earlier, unit>>

NextConfig == Next \/ ProcessEntry

SpecConfig == InitConfig /\ [][NextConfig]_vars

(***************************************************************************)
(* The swap arms of mutate_randomly alone: called on every call of two     *)
(* arguments and every block of two statements of two files, with every    *)
(* state of the random stream, by a build with or without overflow checks. *)
(***************************************************************************)
\* the kinds whose arm shuffles the children and swaps two of them
SwapKinds == {"SwapArgumentsFunctionMutation", "SwapLinesMutation"}

\* the children the arm of kind k shuffles
Children(k, n) ==
  IF k = "SwapArgumentsFunctionMutation" THEN Arguments(n) ELSE Statements(n)

\* the replacements the arm hands to replace_multiple after the shuffle
SwapReps(k, n, src, r) ==
  LET children == Shuffle(Children(k, n), r).v
  IN << <<children[1], GetText(children[2], src)>>,
        <<children[2], GetText(children[1], src)>> >>

InitSwap ==
  /\ fnm \in {"A", "W"}
  /\ node = AST(fnm)
  /\ source = Source(fnm)
  /\ mutation_types = <<"SwapArgumentsFunctionMutation", "SwapLinesMutation">>
  /\ contract = Null
  /\ funcs_to_mutate = None
  /\ num_mutants = 0
  /\ seed = 0
  /\ rand = SeedFromU64(seed)
  /\ NewGenerator([num_mutants |-> num_mutants, seed |-> seed, solc |-> "solc"])
  /\ Idle

\* mut_type.mutate_randomly(point, &source, &mut rand) of a swap kind on a
\* node with exactly two children
CallSwap ==
  /\ call = NoCall
  /\ \E k \in SwapKinds, id \in DOMAIN node \ {0}, r \in 0..(RandMod - 1),
        overflow_checks \in BOOLEAN :
       LET n == New(id, Null)
           reps == SwapReps(k, n, source, r)
           sorted == SortedByStart([i \in 1..Len(reps) |-> Replacement(reps[i], source)])
       IN /\ IsMutationPoint(k, n)
          /\ Len(Children(k, n)) = 2
          /\ call' = [fn |-> "mutate_randomly", src |-> source, reps |-> reps,
                      overflow_checks |-> overflow_checks,
                      mut_type |-> k, point |-> id, rand |-> r]
          /\ returned' = IF overflow_checks /\ OverflowsUsize(0, sorted)
                         THEN [outcome |-> "panic", value |-> <<>>]
                         ELSE [outcome |-> "ok", value |-> MutateRandomly(k, n, source, r).text]
  /\ UNCHANGED <<inputs, generator, earlier, run>>

SpecSwap == InitSwap /\ [][CallSwap]_vars

(***************************************************************************)
(* Runs of degenerate quota: num_mutants is an i64 and may be zero or      *)
(* negative; runs of quota 1 are kept beside them.                         *)
(***************************************************************************)
InitQuota ==
  /\ fnm \in Samples
  /\ node = AST(fnm)
  /\ source = Source(fnm)
  /\ mutation_types \in KindLists
  /\ \E sc \in Scopes : contract = sc[1] /\ funcs_to_mutate = sc[2]
  /\ num_mutants \in (0 - MaxNegQuota)..1
  /\ seed = 0
  /\ rand = SeedFromU64(seed)
  /\ NewGenerator([num_mutants |-> num_mutants, seed |-> seed, solc |-> "solc"])
  /\ Idle

SpecQuota == InitQuota /\ [][Next]_vars

(***************************************************************************)
(* Properties.                                                             *)
(***************************************************************************)
\* the text of the i-th mutant returned
TextOf(i) == written[mutants[i]]

\* the attempt `last` records ran to the end of the loop body
Completed == last.outcome \in {"persisted", "invalid", "duplicate"}

\* C1: no two mutants persisted and returned by a run have identical text.
C1_NoTwoMutantsAlike ==
  \A i, j \in DOMAIN mutants : i # j => TextOf(i) # TextOf(j)

\* C2: after every completed attempt the candidate generated in it is in
\* the seen set, whatever the outcome.
C2_CandidateSeen == Completed => last.mutant \in seen

\* the node is a call of assert: a FunctionCall whose callee is named assert
IsAssertCallExpression(id) ==
  node[id].nodeType = "FunctionCall" /\ node[node[id].expression].name = "assert"

RECURSIVE Subtree(_)
\* the ids of a node and of all nodes below it
Subtree(id) == {id} \cup UNION {Subtree(node[id].kids[i]) : i \in DOMAIN node[id].kids}

\* the node is a call of assert or lies inside one
InsideAssertCall(id) ==
  \E a \in DOMAIN node : IsAssertCallExpression(a) /\ id \in Subtree(a)

\* the ids of the nodes discovered as mutation points
DiscoveredIds ==
  UNION {{mutation_points[k][i].id : i \in DOMAIN mutation_points[k]} :
           k \in DOMAIN mutation_points}

\* C5: no discovered mutation point is a call of assert or a node of the
\* subtree of such a call, for any kind and scope.
C5_NothingInsideAssert == \A id \in DiscoveredIds : ~InsideAssertCall(id)

\* C6: no mutant is persisted from a candidate equal to the original source;
\* such a candidate counts as seen and its kind goes back to the queue.
C6_OriginalNeverPersisted ==
  /\ last.outcome = "persisted" => last.mutant # source
  /\ (last.outcome # Null /\ last.mutant = source) =>
       /\ last.outcome = "duplicate"
       /\ mutation_points_todo # <<>>
       /\ mutation_points_todo[Len(mutation_points_todo)] = last.mut_type

\* a BinaryOpMutation candidate that picked the operator already there
C6_Witness ==
  /\ last.mut_type = "BinaryOpMutation"
  /\ last.mutant = source
  /\ last.outcome = "duplicate"

\* the last attempt was a swap on more than two elements
SwapOfMany ==
  \/ last.mut_type = "SwapLinesMutation" /\ Len(node[last.point].statements) > 2
  \/ /\ last.mut_type = "SwapArgumentsFunctionMutation"
     /\ Len(node[last.point].arguments) > 2

\* C7: SwapLines on a block of more than two statements, and
\* SwapArgumentsFunction on a call of more than two arguments, give a
\* candidate byte-identical to the original source.
C7_SwapOfManyIsNoOp == SwapOfMany => last.mutant = source

\* the candidates C8 allows for a UnaryOperation node
UnaryBySpan(id) ==
  LET start == node[id].start
      end == node[id].start + node[id].len
      op == OpBytes(node[id].operator)
  IN IF source[start + 1] = op[1]
     THEN {ReplacePart(source, OpBytes(o), start, start + Len(op)) : o \in {"++", "--", "~"}}
     ELSE {ReplacePart(source, OpBytes(o), end - Len(op), end) : o \in {"++", "--"}}

\* C8: UnaryOperator decides prefix or postfix by the first byte of the
\* node's own span and replaces the operator token accordingly.
C8_UnaryDecidedBySpan ==
  last.mut_type = "UnaryOperatorMutation" => last.mutant \in UnaryBySpan(last.point)

RECURSIVE FirstMet(_, _)
\* the kinds of a list of (kind, node) pairs in the order they are first met
FirstMet(mutations, met) ==
  IF mutations = <<>> THEN met
  ELSE FirstMet(Tail(mutations),
                IF \E i \in DOMAIN met : met[i] = Head(mutations)[1]
                THEN met ELSE Append(met, Head(mutations)[1]))

\* the discovered kinds in discovery order
DiscoveryOrder == FirstMet(Mutations, <<>>)

\* the first q elements of K repeated cyclically
Cyclic(K, q) == [i \in 1..q |-> K[((i - 1) % Len(K)) + 1]]

\* C3: two runs on the same inputs, with the same answers of the validity
\* service, build the same work queue and return the identical list of
\* mutants.
C3_SameRunSameMutants ==
  (run_no = 2 /\ pc = "done" /\ result = "ok" /\ ~env_failed) =>
    /\ scheduled = first.scheduled
    /\ mutants = first.mutants
    /\ \A i \in DOMAIN mutants : written[mutants[i]] = first.written[mutants[i]]

\* C4: for a quota q > 0 the work queue is the first q elements of the
\* discovered kinds, in discovery order, repeated cyclically.
C4_QueueInDiscoveryOrder ==
  (points # <<>> /\ num_mutants > 0) =>
    scheduled = Cyclic(DiscoveryOrder, num_mutants)

\* C9: every iteration of the loop counts one attempt, the loop runs only
\* while the queue is non-empty and attempts < quota x 50, so a run makes at
\* most quota x 50 attempts and calls of the validity service, and ends.
C9_BoundedAttempts ==
  /\ [](attempts <= total_attempts /\ calls <= total_attempts)
  /\ [][(pc = "inner_loop" /\ pc' = "inner_loop") =>
          (LoopGuard /\ attempts' = attempts + 1)]_vars
  /\ <>(pc = "done")

\* a run that used up its whole budget, every outcome among its attempts
C9_Witness ==
  /\ pc = "done"
  /\ num_mutants > 0
  /\ attempts = total_attempts
  /\ mutants # <<>>
  /\ last.outcome = "duplicate"

\* C10: when every candidate is rejected and a mutation point exists, the
\* run makes exactly quota x 50 attempts and returns Ok of an empty list.
C10_Exhaustion ==
  (/\ pc = "done"
   /\ points # <<>>
   /\ mutants = <<>>
   /\ last.outcome \notin {"service_error", "persist_error"}) =>
    /\ result = "ok"
    /\ attempts = total_attempts

\* a run of quota 2 that made 100 attempts, all rejected, and returned Ok
C10_Witness ==
  /\ pc = "done"
  /\ result = "ok"
  /\ num_mutants = 2
  /\ attempts = 100
  /\ calls > 0
  /\ mutants = <<>>

\* C11: an iteration removes the kind at the front of the queue; a duplicate
\* or rejected candidate puts that kind at the back and persists nothing,
\* any other candidate persists exactly one mutant, appended to the result
\* list, and does not requeue; the other kinds keep their order.
C11_LoopStepOrdering ==
  [][(pc = "inner_loop" /\ attempts' = attempts + 1) =>
       /\ mutation_points_todo # <<>>
       /\ last'.mut_type = Head(mutation_points_todo)
       /\ last'.mutant \in seen => last'.outcome = "duplicate"
       /\ IF last'.outcome \in {"duplicate", "invalid"}
          THEN /\ mutation_points_todo' =
                    Append(Tail(mutation_points_todo), Head(mutation_points_todo))
               /\ mutants' = mutants
               /\ written' = written
          ELSE /\ last'.outcome = "persisted"
               /\ mutation_points_todo' = Tail(mutation_points_todo)
               /\ Len(mutants') = Len(mutants) + 1
               /\ SubSeq(mutants', 1, Len(mutants)) = mutants
               /\ mutants'[Len(mutants')] \notin DOMAIN written
               /\ DOMAIN written' = DOMAIN written \cup {mutants'[Len(mutants')]}
               /\ \A f \in DOMAIN written : written'[f] = written[f]]_vars

\* a rejected kind went to the back of the queue, behind another kind
C11_Witness ==
  /\ last.outcome = "invalid"
  /\ Len(mutation_points_todo) = 2
  /\ mutation_points_todo[2] = last.mut_type
  /\ mutation_points_todo[1] # last.mut_type

\* C12: a failure of the validity service itself (not invocable, killed,
\* unreadable output) aborts the run with an error: no further attempt is
\* made, the kind is not requeued, the loop does not go on.
C12_ServiceFailureAborts ==
  last.outcome \in {"service_error", "killed"} => (pc = "done" /\ result = "err")

\* the node that has id among its children, 0 for the root
ParentOf(id) ==
  IF \E q \in DOMAIN node : \E i \in DOMAIN node[q].kids : node[q].kids[i] = id
  THEN CHOOSE q \in DOMAIN node : \E i \in DOMAIN node[q].kids : node[q].kids[i] = id
  ELSE 0

RECURSIVE EnclosingContract(_)
\* the name of the nearest strict ancestor that declares a contract
EnclosingContract(id) ==
  LET q == ParentOf(id)
  IN IF q = 0 THEN Null
     ELSE IF node[q].contractKind THEN node[q].name
     ELSE EnclosingContract(q)

\* C13: with a contract scope C and no function list, every discovered
\* mutation point is a node whose enclosing contract is C.
C13_ContractScope ==
  (contract # Null /\ ~funcs_to_mutate.some) =>
    \A id \in DiscoveredIds : EnclosingContract(id) = contract

\* discovery under scope C found points, and left out an operation of
\* another contract and one outside any contract
C13_Witness ==
  /\ contract = "C" /\ ~funcs_to_mutate.some
  /\ DiscoveredIds # {}
  /\ \E id \in DOMAIN node \ DiscoveredIds :
       node[id].nodeType = "BinaryOperation" /\ EnclosingContract(id) = "D"
  /\ \E id \in DOMAIN node \ DiscoveredIds :
       node[id].nodeType = "BinaryOperation" /\ EnclosingContract(id) = Null

\* the function definitions the scope allows: named in the list and, with a
\* contract scope as well, declared in that contract
AllowedFunctions ==
  {fd \in DOMAIN node :
     /\ node[fd].nodeType = "FunctionDefinition"
     /\ node[fd].name \in funcs_to_mutate.names
     /\ contract # Null => EnclosingContract(fd) = contract}

\* the body of a function definition: its Block child
BodyOf(fd) ==
  {node[fd].kids[i] : i \in {j \in DOMAIN node[fd].kids :
                               node[node[fd].kids[j]].nodeType = "Block"}}

\* C14 as stated: with a function list, every discovered mutation point
\* lies inside the body of an allowed function definition.
C14_InsideFunctionBody ==
  funcs_to_mutate.some =>
    \A id \in DiscoveredIds :
      \E fd \in AllowedFunctions : \E b \in BodyOf(fd) : id \in Subtree(b)

\* C14 amended: with a function list, every discovered mutation point lies
\* inside an allowed function definition: in its body or in the arguments
\* of its modifier invocations; no node outside such a definition is found.
C14_InsideFunctionDefinition ==
  funcs_to_mutate.some =>
    \A id \in DiscoveredIds : \E fd \in AllowedFunctions : id \in Subtree(fd)

\* discovery under the list {f} and scope C found the points of C.f and
\* left out operations of other functions
C14_Witness ==
  /\ funcs_to_mutate.some /\ contract = "C"
  /\ DiscoveredIds # {}
  /\ \E id \in DOMAIN node \ DiscoveredIds :
       /\ node[id].nodeType = "BinaryOperation"
       /\ ~ \E fd \in AllowedFunctions : id \in Subtree(fd)

\* the sequence in which every span of reps is replaced by its text and every
\* other byte of src is kept, built from offset i on
RECURSIVE Rebuilt(_, _, _)
Rebuilt(src, reps, i) ==
  IF i >= Len(src) THEN <<>>
  ELSE IF \E k \in DOMAIN reps : GetBounds(reps[k][1])[1] = i
  THEN LET k == CHOOSE k \in DOMAIN reps : GetBounds(reps[k][1])[1] = i
       IN reps[k][2] \o Rebuilt(src, reps, GetBounds(reps[k][1])[2])
  ELSE <<src[i + 1]>> \o Rebuilt(src, reps, i + 1)

\* the sum over reps of len(replacement) - span length
RECURSIVE DeltaSum(_)
DeltaSum(reps) ==
  IF reps = <<>> THEN 0
  ELSE Len(Head(reps)[2]) - (GetBounds(Head(reps)[1])[2] - GetBounds(Head(reps)[1])[1])
       + DeltaSum(Tail(reps))

\* C15: replace_multiple, called with replacements of pairwise
\* non-overlapping spans in any order, shorter, as long as or longer than
\* their spans, returns the source with every span replaced by its text and
\* every other byte kept in place and in order; the length of the result is
\* the length of the source plus the sum of the length differences.
C15_MultiReplaceCorrect ==
  call.fn = "replace_multiple" =>
    /\ returned.outcome = "ok"
    /\ returned.value = Rebuilt(call.src, call.reps, 0)
    /\ Len(returned.value) = Len(call.src) + DeltaSum(call.reps)

\* the same of the calls that return
C15_CorrectWhenReturned ==
  (call.fn = "replace_multiple" /\ returned.outcome = "ok") =>
    /\ returned.value = Rebuilt(call.src, call.reps, 0)
    /\ Len(returned.value) = Len(call.src) + DeltaSum(call.reps)

\* the settings of the run of an entry processed alone, right after
\* MutantGenerator::new(cli)
Alone(v) == Overridden(cli, v)

\* C16: every run of an invocation starts from the stream seeded at
\* construction and with the quota, seed and compiler it would have if its
\* entry were the only one: entries processed before it change none of them.
C16_RunsIndependent ==
  \A i \in DOMAIN runs :
    /\ runs[i].rand = SeedFromU64(cli.seed)
    /\ runs[i].num_mutants = Alone(runs[i].entry).num_mutants
    /\ runs[i].seed = Alone(runs[i].entry).seed
    /\ runs[i].solc = Alone(runs[i].entry).solc

\* the part of C16 about the random stream
C16_SameStream ==
  \A i \in DOMAIN runs : runs[i].rand = SeedFromU64(cli.seed)

RECURSIVE PreOrderKids(_)
RECURSIVE PreOrder(_)
\* the nodes of the subtree of id: a node before its descendants, children in
\* document order
PreOrder(id) == <<id>> \o PreOrderKids(node[id].kids)

PreOrderKids(kids) ==
  IF kids = <<>> THEN <<>> ELSE PreOrder(Head(kids)) \o PreOrderKids(Tail(kids))

RECURSIVE UpFrom(_)
\* a node and its ancestors
UpFrom(id) == IF id = 0 THEN {} ELSE {id} \cup UpFrom(ParentOf(id))

\* a node of the tree with the contract that encloses it
Carried(id) == New(id, EnclosingContract(id))

\* the node or an ancestor of it satisfies accept
InScope(id) ==
  \E a \in UpFrom(id) : Accept(contract, funcs_to_mutate, Carried(a))

\* the node or an ancestor of it satisfies skip
Pruned(id) == \E a \in UpFrom(id) : IsAssertCall(Carried(a))

\* the nodes kind k applies to among the nodes the rule has the visitor run
\* on, in pre-order
ByRule(k) ==
  SelectSeq(PreOrder(1),
            LAMBDA id : /\ IsMutationPoint(k, Carried(id))
                        /\ InScope(id)
                        /\ ~Pruned(id))

\* the nodes discovered for kind k, in the order of discovery
Found(k) ==
  IF k \in DOMAIN mutation_points
  THEN [i \in DOMAIN mutation_points[k] |-> mutation_points[k][i].id]
  ELSE <<>>

\* C17: the visitor runs on a node exactly when the node or an ancestor
\* satisfied accept and neither the node nor an ancestor satisfied skip, and
\* its results are accumulated in pre-order: for every allowed kind the nodes
\* discovered are, in this order, the nodes of the pre-order of the tree that
\* are in scope, not pruned, and points of the kind.
C17_TraversalRule ==
  pc # "discover" =>
    \A k \in {mutation_types[i] : i \in DOMAIN mutation_types} :
      Found(k) = ByRule(k)

\* discovery under a function list found an operation in scope only through
\* its function, and left out an operation under a node satisfying skip whose
\* function is in the list
C17_Witness ==
  /\ pc # "discover"
  /\ funcs_to_mutate.some
  /\ \E id \in DiscoveredIds :
       /\ ~Accept(contract, funcs_to_mutate, Carried(id))
       /\ InScope(id)
  /\ \E id \in DOMAIN node :
       /\ id # 0
       /\ \E k \in DOMAIN mutation_points : IsMutationPoint(k, Carried(id))
       /\ InScope(id)
       /\ Pruned(id)
       /\ ~IsAssertCall(Carried(id))
       /\ id \notin DiscoveredIds

\* C18: the contract a discovered node carries is the name of its nearest
\* strict ancestor that declares a contract, and is absent when it has no
\* such ancestor: the name of a contract does not reach the nodes after or
\* outside its subtree.
C18_ContractAttribution ==
  \A k \in DOMAIN mutation_points :
    \A i \in DOMAIN mutation_points[k] :
      mutation_points[k][i].contract = EnclosingContract(mutation_points[k][i].id)

\* discovery found a node of a first contract, after it a node outside any
\* contract that carries none, and a node of a second contract
C18_Witness ==
  \E k \in DOMAIN mutation_points :
    \E h, i, j \in DOMAIN mutation_points[k] :
      /\ h < i /\ i < j
      /\ mutation_points[k][h].contract = "C"
      /\ mutation_points[k][i].contract = Null
      /\ EnclosingContract(mutation_points[k][i].id) = Null
      /\ mutation_points[k][j].contract = "D"

\* C19: every node stored under a kind in the group map satisfies the
\* predicate of the kind, and the kind is an allowed one; every kind in the
\* work queue is a key of the map with at least one node, so the lookup of a
\* popped kind finds a node; and the generator of an attempt was invoked on a
\* node its predicate holds of.
C19_PredicateGeneratorPairing ==
  /\ \A k \in DOMAIN mutation_points :
       /\ \E i \in DOMAIN mutation_types : mutation_types[i] = k
       /\ mutation_points[k] # <<>>
       /\ \A i \in DOMAIN mutation_points[k] : IsMutationPoint(k, mutation_points[k][i])
  /\ \A i \in DOMAIN mutation_points_todo :
       mutation_points_todo[i] \in DOMAIN mutation_points
  /\ last # NoAttempt =>
       /\ last.mut_type \in DOMAIN mutation_points
       /\ \E i \in DOMAIN mutation_points[last.mut_type] :
            mutation_points[last.mut_type][i].id = last.point
       /\ IsMutationPoint(last.mut_type, Carried(last.point))

\* an attempt was made in a run with two kinds in the map, on a node that is
\* a point of the popped kind and not of the other kind
C19_Witness ==
  /\ last # NoAttempt
  /\ \E k \in DOMAIN mutation_points :
       /\ k # last.mut_type
       /\ ~IsMutationPoint(k, Carried(last.point))
       /\ \E i \in DOMAIN mutation_points_todo : mutation_points_todo[i] = k

\* the lines ls with the line at index d left out
Without(ls, d) == SubSeq(ls, 1, d - 1) \o SubSeq(ls, d + 1, Len(ls))

\* the text persisted by the last attempt
LastWritten == written[mutants[Len(mutants)]]

\* the annotated lines w are the mutant lines l2s with one comment line put
\* in at index d, the first index where l2s differs from the original lines
\* l1s; the comment names kind k and quotes the trimmed original line
AnnotatedAt(w, l1s, l2s, d, k) ==
  /\ d <= Len(l1s)
  /\ \A j \in 1..(d - 1) : l1s[j] = l2s[j]
  /\ l1s[d] # l2s[d]
  /\ Len(w) = Len(l2s) + 1
  /\ \A j \in 1..(d - 1) : w[j] = l2s[j]
  /\ TrimStart(w[d]) = <<"/", "/", "/", " ">> \o KindToString(k)
                          \o <<" ", "o", "f", ":", " ">> \o Trim(l1s[d])
  /\ \A j \in d..Len(l2s) : w[j + 1] = l2s[j]
  /\ Without(w, d) = l2s

\* C20: the annotated text of a persisted mutant is made of the lines the
\* mutant shares with the original before the first differing line, then one
\* comment line naming the kind and quoting the trimmed original line, then
\* the differing mutant line and all the mutant lines after it, unchanged
\* and in order; without the comment line they are the lines of the mutant.
C20_ProvenanceAnnotation ==
  (last.outcome = "persisted" /\ ~env_failed) =>
    \E d \in DOMAIN Lines(last.mutant) :
      AnnotatedAt(Lines(LastWritten), Lines(source), Lines(last.mutant), d, last.mut_type)

\* a mutant was annotated whose first differing line is not its first line
\* and not its last line
C20_Witness ==
  /\ last.outcome = "persisted"
  /\ ~env_failed
  /\ \E d \in DOMAIN Lines(last.mutant) :
       /\ d > 1
       /\ d < Len(Lines(last.mutant))
       /\ AnnotatedAt(Lines(LastWritten), Lines(source), Lines(last.mutant), d, last.mut_type)

\* C21: for a quota q >= 0, at the start of every iteration of the loop the
\* mutants persisted so far and the kinds in the work queue are q together;
\* a run never returns more than q mutants, and a run that entered the loop
\* returns exactly q mutants if and only if it left the loop with the queue
\* empty.
C21_QuotaAccounting ==
  num_mutants >= 0 =>
    /\ pc = "inner_loop" => Len(mutants) + Len(mutation_points_todo) = num_mutants
    /\ Len(mutants) <= num_mutants
    /\ (pc = "done" /\ result = "ok" /\ points # <<>>) =>
         (Len(mutants) = num_mutants <=> mutation_points_todo = <<>>)

\* a loop of quota 2 between two iterations, one mutant persisted and one
\* kind left in the queue after a rejected candidate
C21_Witness ==
  /\ pc = "inner_loop"
  /\ num_mutants = 2
  /\ Len(mutants) = 1
  /\ Len(mutation_points_todo) = 1
  /\ last.outcome \in {"duplicate", "invalid"}

\* the source with the texts of the first and the second child of n, in
\* document order, exchanged
Exchanged(k, n, src) ==
  LET former == Children(k, n)[1]
      latter == Children(k, n)[2]
  IN Slice(src, 0, GetBounds(former)[1]) \o GetText(latter, src)
       \o Slice(src, GetBounds(former)[2], GetBounds(latter)[1])
       \o GetText(former, src)
       \o Slice(src, GetBounds(latter)[2], Len(src))

\* C22: for a call of exactly two arguments or a block of exactly two
\* statements the swap arm returns, whatever permutation the shuffle gave,
\* the source with the texts of the two children exchanged.
C22_SwapOfTwo ==
  call.fn = "mutate_randomly" =>
    /\ returned.outcome = "ok"
    /\ returned.value = Exchanged(call.mut_type, New(call.point, Null), call.src)

\* the same of the calls that return
C22_SwapOfTwoWhenReturned ==
  (call.fn = "mutate_randomly" /\ returned.outcome = "ok") =>
    returned.value = Exchanged(call.mut_type, New(call.point, Null), call.src)

\* a call that returned after the shuffle exchanged the two children
C22_Shuffled ==
  /\ call.fn = "mutate_randomly"
  /\ returned.outcome = "ok"
  /\ call.reps[1][1].id = Children(call.mut_type, New(call.point, Null))[2].id

\* C23: a run of quota zero or less that discovered a mutation point
\* builds an empty work queue, makes no attempt and no call of the validity
\* service, and returns Ok of an empty list.
C23_DegenerateQuota ==
  (num_mutants <= 0 /\ mutation_points # <<>>) =>
    /\ attempts = 0
    /\ calls = 0
    /\ mutation_points_todo = <<>>
    /\ mutants = <<>>
    /\ pc = "done" => result = "ok"

\* the same but for the result
C23_NothingAttempted ==
  (num_mutants <= 0 /\ mutation_points # <<>>) =>
    /\ attempts = 0
    /\ calls = 0
    /\ mutation_points_todo = <<>>
    /\ mutants = <<>>
    /\ pc = "done" => (result = "ok" <=> num_mutants = 0)

====
